---- MODULE Spec2Model ----
(***************************************************************************)
(* The bucket beam of modules/http2/h2_bucket_beam.c: a bounded pipe that  *)
(* carries buckets from a producer ("red") thread to a consumer ("green")  *)
(* thread.  Every handler of the beam is one action; a handler that waits  *)
(* on the condition variable ends its action at the wait and is resumed by *)
(* a wake-up or a timeout action.                                          *)
(***************************************************************************)
EXTENDS Integers, Sequences, FiniteSets, TLC

\* ---------------------------------------------------------------- bounds
MaxBuckets == 3      \* buckets the producer hands to the beam over a run
MaxLen == 3          \* longest data bucket
MaxReadBytes == 2    \* largest readbytes budget of a receive
MaxBufSize == 2      \* the non-zero max_buf_size that is tried
MaxBatch == 2        \* longest brigade of one send call
MaxBeamers == 2      \* most bucket beamers that get registered

\* ---------------------------------------------------- program constants
NULL == 0
APR_BUCKET_BUFF_SIZE == 8000
\* stands for the largest apr_size_t: larger than every length of the model
APR_SIZE_MAX == 2147483647

\* tokens of the stream as the consumer sees it: a data byte is its offset
\* in the stream (>= 0), a metadata marker is a negative number
TokEOS == -1
TokFLUSH == -2
TokERROR == -3
TokEOSClose == -4    \* the end-of-stream receive makes up for a closed beam
TokNOTE == -5        \* a metadata bucket of a type the beam does not know

VARIABLES
    beam,    \* the h2_bucket_beam structure
    proxy,   \* the h2_beam_proxy objects that are allocated: n -> proxy
    green,   \* n -> how many buckets on proxy n the consumer holds
    prod,    \* the producer thread: where it is inside h2_beam_send
    cons,    \* the consumer thread: where it is inside receive / wait_empty
    cb,      \* what the embedder's callbacks have been told so far
    hist,    \* the stream as submitted and as delivered
    sys,     \* "running", "destroyed" (beam gone), "crashed", "hung"
    beamers  \* the registered bucket beamers, a static of the file

vars == <<beam, proxy, green, prod, cons, cb, hist, sys, beamers>>

\* ------------------------------------------------------------- helpers
RECURSIVE SumLen(_)
SumLen(s) == IF s = <<>> THEN 0 ELSE Head(s).length + SumLen(Tail(s))

RECURSIVE RemoveVal(_, _)
RemoveVal(s, v) ==
    IF s = <<>> THEN <<>>
    ELSE IF Head(s) = v THEN Tail(s)
    ELSE <<Head(s)>> \o RemoveVal(Tail(s), v)

Ids(s) == {s[i].id : i \in 1..Len(s)}

IsPrefix(s, t) == Len(s) <= Len(t) /\ SubSeq(t, 1, Len(s)) = s

RECURSIVE Bytes(_, _)
Bytes(off, len) == IF len <= 0 THEN <<>> ELSE <<off>> \o Bytes(off + 1, len - 1)

\* ---------------------------------------------------- the bucket types
MetaTypes == {"eos", "flush", "error", "note"}
APR_BUCKET_IS_METADATA(b) == b.type \in MetaTypes
APR_BUCKET_IS_EOS(b) == b.type = "eos"
APR_BUCKET_IS_FILE(b) == b.type = "file"

MetaToken(t) ==
    IF t = "eos" THEN TokEOS ELSE IF t = "flush" THEN TokFLUSH
    ELSE IF t = "note" THEN TokNOTE ELSE TokERROR

\* what a bucket contributes to the stream
Tokens(b) == IF b.type \in MetaTypes THEN <<MetaToken(b.type)>> ELSE Bytes(b.off, b.length)

RECURSIVE TokensOf(_)
TokensOf(s) == IF s = <<>> THEN <<>> ELSE Tokens(Head(s)) \o TokensOf(Tail(s))

\* the world a handler works on: the beam, the proxies, the callbacks'
\* records, the history, plus what the handler did to the condition
\* variable (bcast), whether it ran into a failed assertion (fault), the
\* file handles it asked the file-beam callback about (asked), how often
\* it holds the hook's mutex (lock), whether it touched the beam's
\* queues, flags or counters without holding it (unlocked), the registered
\* beamers and which of them it called with which bucket (consulted)
World ==
    [beam |-> beam, proxy |-> proxy, cb |-> cb, hist |-> hist,
     bcast |-> FALSE, fault |-> FALSE, asked |-> <<>>,
     lock |-> 0, unlocked |-> FALSE, nested |-> FALSE,
     beamers |-> beamers, consulted |-> <<>>]

\* apr_thread_cond_broadcast(beam->m_cond), guarded by "if (beam->m_cond)"
cond_broadcast(w) == IF w.beam.m_cond THEN [w EXCEPT !.bcast = TRUE] ELSE w

\* enter_yellow: the lock the handler gets; a mutex only with a lock hook
enter_yellow(b) == [mutex |-> b.m_enter]

\* the hook has locked the mutex of bl for the handler; wait_cond does the
\* same when it returns.  A hook called by the thread that holds the lock
\* is recorded in nested; what the hook does then is the embedder's code,
\* the handler goes on here as with a hook that takes the lock once more
mutex_held(w, bl) ==
    IF bl.mutex THEN [w EXCEPT !.lock = @ + 1, !.nested = @ \/ w.lock > 0] ELSE w

\* leave_yellow: pbl->leave unlocks the mutex, if there is one
leave_yellow(w, bl) == IF bl.mutex THEN [w EXCEPT !.lock = @ - 1] ELSE w

\* wait_cond: the thread sleeps on the condition with the mutex unlocked
wait_cond(w, bl) == IF bl.mutex THEN [w EXCEPT !.lock = @ - 1] ELSE w

\* the handler reads or writes queues, proxies, flags or counters here
beam_access(w) ==
    IF w.beam.m_enter /\ w.lock <= 0 THEN [w EXCEPT !.unlocked = TRUE] ELSE w

\* ------------------------------------------- callbacks and accounting
\* the callback is told the delta, yet the report is not recorded
report_consumption_unrecorded(w, force) ==
    LET b == w.beam IN
    IF force \/ b.received_bytes /= b.reported_consumed_bytes
    THEN [w EXCEPT
            !.cb.consumed = IF b.consumed_fn
                            THEN @ + (b.received_bytes - b.reported_consumed_bytes)
                            ELSE @]
    ELSE w

report_consumption(w, force) ==
    LET b == w.beam IN
    IF force \/ b.received_bytes /= b.reported_consumed_bytes
    THEN [w EXCEPT
            !.cb.consumed = IF b.consumed_fn
                            THEN @ + (b.received_bytes - b.reported_consumed_bytes)
                            ELSE @,
            !.beam.reported_consumed_bytes = b.received_bytes]
    ELSE w

report_production(w, force) ==
    LET b == w.beam IN
    IF force \/ b.sent_bytes /= b.reported_produced_bytes
    THEN [w EXCEPT
            !.cb.produced = IF b.produced_fn
                            THEN @ + (b.sent_bytes - b.reported_produced_bytes)
                            ELSE @,
            !.beam.reported_produced_bytes = b.sent_bytes]
    ELSE w

RECURSIVE BufferedLen(_)
BufferedLen(s) ==
    IF s = <<>> THEN 0
    ELSE (IF APR_BUCKET_IS_FILE(Head(s)) THEN 0 ELSE Head(s).length)
         + BufferedLen(Tail(s))

calc_buffered(b) == BufferedLen(b.send_list)

calc_space_left(b) ==
    IF b.max_buf_size > 0
    THEN LET len == calc_buffered(b)
         IN IF b.max_buf_size > len THEN b.max_buf_size - len ELSE 0
    ELSE APR_SIZE_MAX

\* every bucket of the purge list is deleted
r_purge_sent(w) == [w EXCEPT !.beam.purge_list = <<>>]

h2_blist_cleanup(bl) == <<>>

\* ------------------------------------------------------ proxy buckets
\* the scan of the hold list in h2_beam_emitted: metadata in front of the
\* proxy's bucket and the bucket itself go to purge, the rest stays
\* a scan that gives up at the first data bucket that is not the proxy's
RECURSIVE emitted_scan_stop(_, _)
emitted_scan_stop(hold, bred) ==
    LET next(b, r) == [hold |-> r.hold, purge |-> <<b>> \o r.purge]
    IN IF hold = <<>> THEN [hold |-> <<>>, purge |-> <<>>]
       ELSE IF Head(hold).id = bred
       THEN [hold |-> Tail(hold), purge |-> <<Head(hold)>>]
       ELSE IF APR_BUCKET_IS_METADATA(Head(hold))
       THEN next(Head(hold), emitted_scan_stop(Tail(hold), bred))
       ELSE [hold |-> hold, purge |-> <<>>]

\* a scan that does not stop at the proxy's bucket: the metadata behind it
\* is purged as well
RECURSIVE emitted_scan_all(_, _)
emitted_scan_all(hold, bred) ==
    LET next(b, r) ==
          IF APR_BUCKET_IS_METADATA(b) \/ b.id = bred
          THEN [hold |-> r.hold, purge |-> <<b>> \o r.purge]
          ELSE [hold |-> <<b>> \o r.hold, purge |-> r.purge]
    IN IF hold = <<>> THEN [hold |-> <<>>, purge |-> <<>>]
       ELSE next(Head(hold), emitted_scan_all(Tail(hold), bred))

\* a scan that purges every bucket in front of the proxy's bucket
emitted_scan_front(hold, bred) ==
    LET at == CHOOSE i \in 1..Len(hold) : hold[i].id = bred
    IN IF bred \in Ids(hold)
       THEN [hold |-> SubSeq(hold, at + 1, Len(hold)), purge |-> SubSeq(hold, 1, at)]
       ELSE [hold |-> hold, purge |-> <<>>]

RECURSIVE emitted_scan(_, _)
emitted_scan(hold, bred) ==
    LET next(b, r) ==
          IF APR_BUCKET_IS_METADATA(b)
          THEN [hold |-> r.hold, purge |-> <<b>> \o r.purge]
          ELSE [hold |-> <<b>> \o r.hold, purge |-> r.purge]
    IN IF hold = <<>> THEN [hold |-> <<>>, purge |-> <<>>]
       ELSE IF Head(hold).id = bred
       THEN [hold |-> Tail(hold), purge |-> <<Head(hold)>>]
       ELSE next(Head(hold), emitted_scan(Tail(hold), bred))

\* lines 335-382 of h2_beam_emitted: the proxy leaves the proxy list and
\* its bucket leaves the hold list
emitted_unlink(w, n) ==
    LET unlinked(w1) == [w1 EXCEPT !.beam.proxies = RemoveVal(@, n)]
        moved(w1, r) == [w1 EXCEPT !.beam.hold_list = r.hold,
                                   !.beam.purge_list = @ \o r.purge,
                                   !.proxy[n].bred = NULL]
        scanned(w1, bred) ==
          IF bred /= NULL
          THEN IF bred \in Ids(w1.beam.hold_list)
               THEN moved(w1, emitted_scan(w1.beam.hold_list, bred))
               ELSE [w1 EXCEPT !.fault = TRUE]
          ELSE w1
    IN scanned(unlinked(w), w.proxy[n].bred)

\* the purge list is drained under a lock hook as well
h2_beam_emitted_purge(w, n) ==
    LET leave(bl, w2) == leave_yellow(cond_broadcast(r_purge_sent(w2)), bl)
        entered(bl) ==
          leave(bl, emitted_unlink(beam_access(mutex_held(w, bl)), n))
    IN entered(enter_yellow(w.beam))

h2_beam_emitted(w, n) ==
    LET leave(bl, w2) ==
          leave_yellow(IF ~bl.mutex THEN r_purge_sent(w2) ELSE cond_broadcast(w2), bl)
        entered(bl) ==
          leave(bl, emitted_unlink(beam_access(mutex_held(w, bl)), n))
    IN entered(enter_yellow(w.beam))

\* beam_bucket_destroy: the last reference enters the beam, if there is one
beam_bucket_destroy(w, n) ==
    IF w.proxy[n].refcount > 1
    THEN [w EXCEPT !.proxy[n].refcount = @ - 1]
    ELSE LET free(w1) == [w1 EXCEPT !.proxy = [m \in (DOMAIN @) \ {n} |-> @[m]]]
         IN free(IF w.proxy[n].beam THEN h2_beam_emitted(w, n) ELSE w)

\* apr_bucket_destroy of a bucket of a consumer brigade
green_destroy(w, g) == IF g.type = "beam" THEN beam_bucket_destroy(w, g.data) ELSE w

\* apr_brigade_cleanup: every bucket of the brigade is destroyed, in order
RECURSIVE brigade_cleanup(_, _)
brigade_cleanup(w, bb) ==
    IF bb = <<>> THEN w ELSE brigade_cleanup(green_destroy(w, Head(bb)), Tail(bb))

\* beam_bucket_read: status and length the consumer gets from a proxy bucket
beam_bucket_read(px, g) ==
    IF px[g.data].bred /= NULL
    THEN [status |-> "SUCCESS", len |-> g.length]
    ELSE [status |-> "ECONNRESET", len |-> 0]

\* --------------------------------------------------------------- send
\* beam_set_send_pool: the producer pool is watched when the receiver owns
\* the beam; a pool is NULL (FALSE) or alive (TRUE)
beam_set_send_pool(w, pool) ==
    IF w.beam.owner = "RECV" /\ w.beam.send_pool /= pool
    THEN [w EXCEPT !.beam.send_pool = pool]
    ELSE w

\* the bucket is put at the head of the send list instead of its tail
send_insert_head(w, c, type, submitted) ==
    LET nb == [id |-> w.hist.nextId + 1, type |-> type, length |-> c.length,
               off |-> w.beam.sent_bytes]
    IN [w EXCEPT !.beam.send_list = <<nb>> \o @,
                 !.hist.nextId = @ + 1,
                 !.hist.submitted = IF submitted THEN @ \o Tokens(nb) ELSE @]

\* APR_BUCKET_REMOVE(b); H2_BLIST_INSERT_TAIL(&beam->send_list, b): the
\* bucket c of the caller's brigade becomes bucket nextId + 1 of the beam
send_insert(w, c, type, submitted) ==
    LET nb == [id |-> w.hist.nextId + 1, type |-> type, length |-> c.length,
               off |-> w.beam.sent_bytes]
    IN [w EXCEPT !.beam.send_list = Append(@, nb),
                 !.hist.nextId = @ + 1,
                 !.hist.submitted = IF submitted THEN @ \o Tokens(nb) ELSE @]

\* move_to_hold: the brigade goes to the send list as it is
RECURSIVE move_to_hold(_, _)
move_to_hold(w, red) ==
    IF red = <<>> THEN w
    ELSE move_to_hold(send_insert(w, Head(red), Head(red).type, FALSE), Tail(red))

\* the producer goes to sleep without reporting what it has produced
r_wait_space_loop_silent(w, block, mutex, premain) ==
    IF ~w.beam.aborted /\ premain <= 0 /\ block /\ mutex
    THEN [w |-> w, wait |-> TRUE, status |-> "SUCCESS", premain |-> premain]
    ELSE [w |-> w, wait |-> FALSE,
          status |-> IF w.beam.aborted THEN "ECONNABORTED" ELSE "SUCCESS",
          premain |-> premain]

\* the while loop of r_wait_space from its test on; wait = the producer
\* is about to sleep in wait_cond
r_wait_space_loop(w, block, mutex, premain) ==
    IF ~w.beam.aborted /\ premain <= 0 /\ block /\ mutex
    THEN [w |-> report_production(w, TRUE), wait |-> TRUE,
          status |-> "SUCCESS", premain |-> premain]
    ELSE [w |-> w, wait |-> FALSE,
          status |-> IF w.beam.aborted THEN "ECONNABORTED" ELSE "SUCCESS",
          premain |-> premain]

\* resume: "enter" on the call, "wake" when wait_cond returned success,
\* "timeup" when it returned a timeout
r_wait_space(w, block, mutex, resume) ==
    IF resume = "timeup"
    THEN [w |-> w, wait |-> FALSE, status |-> "TIMEUP", premain |-> 0]
    ELSE IF resume = "wake"
    THEN r_wait_space_loop(r_purge_sent(w), block, mutex,
                           calc_space_left(r_purge_sent(w).beam))
    ELSE r_wait_space_loop(w, block, mutex, calc_space_left(w.beam))

\* a bucket that finds no space at all is admitted all the same
append_space_admit(w, b, block, mutex, resume) ==
    IF APR_BUCKET_IS_FILE(b)
    THEN [w |-> w, wait |-> FALSE, status |-> "SUCCESS", space_left |-> 0]
    ELSE LET waited(r) ==
               [w |-> r.w, wait |-> r.wait, status |-> r.status,
                space_left |-> r.premain]
             space(space_left) ==
               IF resume = "enter" /\ ~(space_left < b.length)
               THEN [w |-> w, wait |-> FALSE, status |-> "SUCCESS",
                     space_left |-> space_left]
               ELSE waited(r_wait_space(w, block, mutex, resume))
         IN space(calc_space_left(w.beam))

\* append_bucket, lines 696-719: the space a data bucket finds
append_space(w, b, block, mutex, resume) ==
    IF APR_BUCKET_IS_FILE(b)
    THEN [w |-> w, wait |-> FALSE, status |-> "SUCCESS", space_left |-> 0]
    ELSE LET waited(r) ==
               IF r.wait \/ r.status /= "SUCCESS"
               THEN [w |-> r.w, wait |-> r.wait, status |-> r.status,
                     space_left |-> r.premain]
               ELSE IF r.premain <= 0
               THEN [w |-> r.w, wait |-> FALSE, status |-> "EAGAIN", space_left |-> 0]
               ELSE [w |-> r.w, wait |-> FALSE, status |-> "SUCCESS",
                     space_left |-> r.premain]
             space(space_left) ==
               IF resume = "enter" /\ ~(space_left < b.length)
               THEN [w |-> w, wait |-> FALSE, status |-> "SUCCESS",
                     space_left |-> space_left]
               ELSE waited(r_wait_space(w, block, mutex, resume))
         IN space(calc_space_left(w.beam))

\* append_bucket, lines 726-799: the bucket is made safe for the consumer
\* and moved to the send list.  env.io_ok: apr_bucket_read succeeds;
\* env.can_beam[fd]: what the file-beam callback answers for fd
append_normalize(w, red, space_left0, env) ==
    LET b == Head(red)
        consult == b.type = "file" /\ w.beam.last_beamed /= b.fd /\ w.beam.can_beam_fn
        can_beam == IF consult THEN env.can_beam[b.fd] ELSE TRUE
        st1 == CASE b.type = "transient" -> "SUCCESS"
                 [] b.type = "heap" -> "SUCCESS"
                 [] b.type = "pool" -> IF env.io_ok THEN "SUCCESS" ELSE "EIO"
                 [] b.type = "file" -> IF can_beam THEN "SUCCESS" ELSE "ENOTIMPL"
                 [] OTHER -> "ENOTIMPL"
        w0 == IF consult THEN [w EXCEPT !.asked = Append(@, b.fd)] ELSE w
        w1 == IF b.type = "file" /\ can_beam
              THEN [w0 EXCEPT !.beam.last_beamed = b.fd] ELSE w0
        space_left == IF space_left0 < APR_BUCKET_BUFF_SIZE
                      THEN APR_BUCKET_BUFF_SIZE ELSE space_left0
        split == st1 = "ENOTIMPL" /\ space_left < b.length
        head == IF split THEN [b EXCEPT !.length = space_left] ELSE b
        red1 == IF split
                THEN <<[b EXCEPT !.length = b.length - space_left]>> \o Tail(red)
                ELSE Tail(red)
        st2 == IF st1 = "ENOTIMPL"
               THEN (IF env.io_ok THEN "SUCCESS" ELSE "EIO") ELSE st1
        type == IF b.type = "file" /\ can_beam THEN "file" ELSE "heap"
    IN IF st2 /= "SUCCESS"
       THEN [w |-> w1, red |-> <<head>> \o red1, status |-> st2, wait |-> FALSE]
       ELSE [w |-> [send_insert(w1, head, type, TRUE)
                       EXCEPT !.beam.sent_bytes = @ + head.length],
             red |-> red1, status |-> "SUCCESS", wait |-> FALSE]

append_bucket(w, red, block, mutex, resume, env) ==
    LET b == Head(red)
        data(sp) ==
          IF sp.wait \/ sp.status /= "SUCCESS"
          THEN [w |-> sp.w, red |-> red, status |-> sp.status, wait |-> sp.wait]
          ELSE append_normalize(sp.w, red, sp.space_left, env)
    IN IF APR_BUCKET_IS_METADATA(b)
       THEN [w |-> send_insert(IF APR_BUCKET_IS_EOS(b)
                               THEN [w EXCEPT !.beam.closed = TRUE] ELSE w,
                               b, b.type, TRUE),
             red |-> Tail(red), status |-> "SUCCESS", wait |-> FALSE]
       ELSE data(append_space(w, b, block, mutex, resume))

\* the while loop of h2_beam_send over the brigade
RECURSIVE send_loop(_, _, _, _, _, _)
send_loop(w, red, block, mutex, resume, env) ==
    LET next(r) ==
          IF r.wait \/ r.status /= "SUCCESS" THEN r
          ELSE send_loop(r.w, r.red, block, mutex, "enter", env)
    IN IF red = <<>>
       THEN [w |-> w, red |-> red, status |-> "SUCCESS", wait |-> FALSE]
       ELSE next(append_bucket(w, red, block, mutex, resume, env))

\* h2_beam_send; resume = "enter" is the call itself, "wake" and "timeup"
\* take it up again inside r_wait_space with what is left of the brigade
h2_beam_send(w, red, block, force_report, resume, env) ==
    LET bl == enter_yellow(w.beam)
        done(r) ==
          IF r.wait THEN r
          ELSE [r EXCEPT !.w = report_consumption(
                                  cond_broadcast(report_production(@, force_report)),
                                  FALSE)]
        entered(w1) ==
          IF resume = "enter" /\ w1.beam.aborted
          THEN [w |-> report_consumption(move_to_hold(w1, red), FALSE),
                red |-> <<>>, status |-> "ECONNABORTED", wait |-> FALSE]
          ELSE done(send_loop(w1, red, block, bl.mutex, resume, env))
        left(r) ==
          [r EXCEPT !.w = IF r.wait THEN wait_cond(@, bl) ELSE leave_yellow(@, bl)]
        yellow(w0) ==
          left(entered(IF resume = "enter"
                       THEN beam_set_send_pool(r_purge_sent(w0), TRUE) ELSE w0))
    IN yellow(beam_access(mutex_held(w, bl)))

\* ------------------------------------------------------------ receive
\* a bucket of a consumer brigade: type "beam" is a proxy bucket on proxy
\* data; off is the place in the stream of its first byte.  "eos_close"
\* is an eos bucket too, told apart only as the one receive made itself
GreenTokens(g) ==
    IF g.type = "eos_close" THEN <<TokEOSClose>>
    ELSE IF g.type \in MetaTypes THEN <<MetaToken(g.type)>>
    ELSE Bytes(g.off, g.length)

RECURSIVE GreenTokensOf(_)
GreenTokensOf(s) ==
    IF s = <<>> THEN <<>> ELSE GreenTokens(Head(s)) \o GreenTokensOf(Tail(s))

green_meta(type, off) ==
    [type |-> type, data |-> NULL, start |-> 0, length |-> 0, off |-> off]

\* the receive buffer is left as it is
receive_aborted_keep(w) == w

\* lines 853-859: on an aborted beam the receive buffer is emptied
receive_aborted(w) ==
    IF w.beam.recv_buffer /= <<>>
    THEN [brigade_cleanup(w, w.beam.recv_buffer) EXCEPT !.beam.recv_buffer = <<>>]
    ELSE w

\* lines 863-874: buckets of the receive buffer go first
RECURSIVE recv_from_buffer(_, _)
recv_from_buffer(r, readbytes) ==
    LET rb == r.w.beam.recv_buffer IN
    IF rb /= <<>> /\ (readbytes <= 0 \/ r.remain >= 0)
    THEN LET bgreen == Head(rb) IN
         IF readbytes > 0 /\ bgreen.length > 0 /\ r.remain <= 0 THEN r
         ELSE recv_from_buffer(
                [r EXCEPT !.w.beam.recv_buffer = Tail(rb),
                          !.bb = Append(@, bgreen),
                          !.remain = @ - bgreen.length,
                          !.transferred = @ + 1], readbytes)
    ELSE r

\* the proxy is linked without its bucket
h2_beam_bucket_make_unbound(w, bred, n) ==
    [w EXCEPT !.beam.proxies = Append(@, n),
              !.proxy = [m \in (DOMAIN @) \cup {n} |->
                           IF m = n THEN [beam |-> TRUE, bred |-> NULL, refcount |-> 1]
                           ELSE @[m]]]

\* h2_beam_bucket_create / h2_beam_bucket_make: proxy n on bucket bred
h2_beam_bucket_make(w, bred, n) ==
    [w EXCEPT !.beam.proxies = Append(@, n),
              !.proxy = [m \in (DOMAIN @) \cup {n} |->
                           IF m = n THEN [beam |-> TRUE, bred |-> bred.id, refcount |-> 1]
                           ELSE @[m]]]

\* h2_beam_bucket: the beamers are called in the order of their
\* registration until one gives a bucket for src; a beamer is the set of
\* bucket types it gives a bucket for.  at is the first one that does,
\* 0 if there is none
h2_beam_bucket(w, src) ==
    LET claim == {i \in 1..Len(w.beamers) : src.type \in w.beamers[i]}
        at == IF claim = {} THEN 0
              ELSE CHOOSE i \in claim : \A j \in claim : i <= j
        last == IF at = 0 THEN Len(w.beamers) ELSE at
    IN [w |-> [w EXCEPT !.consulted =
                           @ \o [i \in 1..last |-> [beamer |-> i, id |-> src.id]]],
        at |-> at]

\* lines 886-899 and 950-957: a metadata bucket that is neither eos,
\* flush nor error gets no green bucket from the beam; the beamers are
\* asked for one after the bucket has gone to the hold list
recv_beamed(r, bred) ==
    LET moved == [r EXCEPT !.w.beam.send_list = Tail(@),
                           !.w.beam.hold_list = Append(@, bred),
                           !.w.beam.received_bytes = @ + bred.length]
        asked(a) ==
          IF a.at = 0 THEN [moved EXCEPT !.w = a.w]
          ELSE [moved EXCEPT !.w = a.w,
                             !.bb = Append(@, [type |-> "beamed", data |-> NULL,
                                               start |-> 0, length |-> bred.length,
                                               off |-> bred.off]),
                             !.remain = @ - bred.length,
                             !.transferred = @ + 1]
    IN asked(h2_beam_bucket(moved.w, bred))

\* lines 878-958: buckets of the send list are turned into green ones
RECURSIVE recv_from_send(_, _, _)
recv_from_send(r, readbytes, setaside_ok) ==
    LET b == r.w.beam IN
    IF b.send_list /= <<>> /\ (readbytes <= 0 \/ r.remain >= 0)
    THEN LET bred == Head(b.send_list) IN
         IF readbytes > 0 /\ bred.length > 0 /\ r.remain <= 0 THEN r
         ELSE IF bred.type = "note"
         THEN recv_from_send(recv_beamed(r, bred), readbytes, setaside_ok)
         ELSE IF APR_BUCKET_IS_METADATA(bred)
         THEN recv_from_send(
                [r EXCEPT !.w.beam.close_sent = @ \/ APR_BUCKET_IS_EOS(bred),
                          !.w.beam.send_list = Tail(@),
                          !.w.beam.hold_list = Append(@, bred),
                          !.w.beam.received_bytes = @ + bred.length,
                          !.bb = Append(@, green_meta(bred.type, bred.off)),
                          !.transferred = @ + 1], readbytes, setaside_ok)
         ELSE IF APR_BUCKET_IS_FILE(bred)
         THEN IF ~setaside_ok
              THEN [r EXCEPT !.status = "EIO", !.leave = TRUE]
              ELSE recv_from_send(
                     [r EXCEPT !.w.beam.files_beamed = @ + 1,
                               !.w.beam.send_list = Tail(@),
                               !.w.beam.hold_list = Append(@, bred),
                               !.bb = Append(@, [type |-> "file", data |-> NULL,
                                                 start |-> 0, length |-> bred.length,
                                                 off |-> bred.off]),
                               !.remain = @ - bred.length,
                               !.transferred = @ + 2], readbytes, setaside_ok)
         ELSE LET n == b.buckets_sent IN
              recv_from_send(
                   [r EXCEPT !.w = [h2_beam_bucket_make(@, bred, n)
                                      EXCEPT !.beam.buckets_sent = @ + 1,
                                             !.beam.send_list = Tail(@),
                                             !.beam.hold_list = Append(@, bred),
                                             !.beam.received_bytes = @ + bred.length],
                             !.bb = Append(@, [type |-> "beam", data |-> n,
                                               start |-> 0, length |-> bred.length,
                                               off |-> bred.off]),
                             !.remain = @ - bred.length,
                             !.transferred = @ + 1], readbytes, setaside_ok)
    ELSE r

\* the first bucket of bb with which the budget goes below zero
RECURSIVE overshoot_at(_, _, _)
overshoot_at(bb, i, remain) ==
    IF i > Len(bb) THEN 0
    ELSE IF remain - bb[i].length < 0 THEN i
    ELSE overshoot_at(bb, i + 1, remain - bb[i].length)

\* apr_bucket_split of a green bucket (shared split of a proxy bucket)
green_split(w, g) ==
    IF g.type = "beam" THEN [w EXCEPT !.proxy[g.data].refcount = @ + 1] ELSE w

\* the bucket that goes over the budget is put back whole
recv_put_back_whole(r, readbytes) ==
    IF readbytes > 0 /\ r.remain < 0
    THEN LET i == overshoot_at(r.bb, 1, readbytes) IN
         IF overshoot_at(r.bb, 1, readbytes) = 0 THEN r
         ELSE [r EXCEPT !.w.beam.recv_buffer = SubSeq(r.bb, i, Len(r.bb)),
                        !.bb = SubSeq(r.bb, 1, i - 1)]
    ELSE r

\* lines 960-975: what is over the budget goes back to the receive
\* buffer; apr_brigade_split_ex empties the buffer it is given first
recv_put_back(r, readbytes) ==
    IF readbytes > 0 /\ r.remain < 0
    THEN LET i == overshoot_at(r.bb, 1, readbytes) IN
         IF overshoot_at(r.bb, 1, readbytes) = 0 THEN r
         ELSE LET g == r.bb[i]
                  point == readbytes - SumLen(SubSeq(r.bb, 1, i - 1))
                  head == [g EXCEPT !.length = point]
                  tail == [g EXCEPT !.start = @ + point, !.length = @ - point,
                                    !.off = @ + point]
                  split_ex(w1) == brigade_cleanup(w1, w1.beam.recv_buffer)
              IN [r EXCEPT !.w = [split_ex(green_split(@, g))
                                    EXCEPT !.beam.recv_buffer =
                                       <<tail>> \o SubSeq(r.bb, i + 1, Len(r.bb))],
                           !.bb = SubSeq(r.bb, 1, i - 1) \o <<head>>]
    ELSE r

\* lines 977-988: a closed and drained beam gets its end-of-stream
recv_close(r) ==
    LET b == r.w.beam IN
    IF b.closed /\ b.recv_buffer = <<>> /\ b.send_list = <<>> /\ ~b.close_sent
    THEN [r EXCEPT !.bb = Append(@, green_meta("eos_close", b.sent_bytes)),
                   !.w.beam.close_sent = TRUE,
                   !.transferred = @ + 1,
                   !.status = "SUCCESS"]
    ELSE r

\* the closed flag is looked at before what was transferred
recv_result_closed_first(r, block, mutex) ==
    IF r.w.beam.closed THEN [r EXCEPT !.status = "EOF"]
    ELSE IF r.transferred > 0
    THEN [r EXCEPT !.w = cond_broadcast(@), !.status = "SUCCESS"]
    ELSE IF block /\ mutex /\ r.w.beam.m_cond THEN [r EXCEPT !.wait = TRUE]
    ELSE [r EXCEPT !.w = cond_broadcast(@), !.status = "EAGAIN"]

\* lines 990-1011: the result of the call
recv_result(r, block, mutex) ==
    IF r.transferred > 0
    THEN [r EXCEPT !.w = cond_broadcast(@), !.status = "SUCCESS"]
    ELSE IF r.w.beam.closed THEN [r EXCEPT !.status = "EOF"]
    ELSE IF block /\ mutex /\ r.w.beam.m_cond THEN [r EXCEPT !.wait = TRUE]
    ELSE [r EXCEPT !.w = cond_broadcast(@), !.status = "EAGAIN"]

\* the mutex is given back only by a call that ends in success
receive_leave_success(r, bl) ==
    [r EXCEPT !.w = IF r.wait THEN wait_cond(@, bl)
                    ELSE IF r.status = "SUCCESS" THEN leave_yellow(@, bl) ELSE @]

\* label leave of h2_beam_receive, which every path of the call comes to,
\* or the sleep in wait_cond
receive_leave(r, bl) ==
    [r EXCEPT !.w = IF r.wait THEN wait_cond(@, bl) ELSE leave_yellow(@, bl)]

\* h2_beam_receive from label transfer on ("enter", "wake"), or from a
\* wait_cond that timed out ("timeup"); bb is what the call appends
h2_beam_receive(w, block, readbytes, setaside_ok, resume) ==
    LET bl == enter_yellow(w.beam)
        transferred(r1) ==
          IF r1.leave THEN r1
          ELSE recv_result(recv_close(recv_put_back(r1, readbytes)),
                           block, bl.mutex)
        yellow(r0) ==
          IF resume = "timeup" THEN [r0 EXCEPT !.status = "TIMEUP"]
          ELSE IF w.beam.aborted
          THEN [r0 EXCEPT !.w = receive_aborted(@), !.status = "ECONNABORTED"]
          ELSE transferred(recv_from_send(recv_from_buffer(r0, readbytes),
                                          readbytes, setaside_ok))
    IN receive_leave(
         yellow([w |-> beam_access(mutex_held(w, bl)), bb |-> <<>>,
                 remain |-> readbytes, transferred |-> 0,
                 status |-> "SUCCESS", wait |-> FALSE, leave |-> FALSE]), bl)

\* ---------------------------------- close, abort, wait_empty, cleanup
beam_close(w) ==
    IF ~w.beam.closed THEN cond_broadcast([w EXCEPT !.beam.closed = TRUE]) ELSE w

\* a close that does not report the consumption
h2_beam_close_silent(w) ==
    LET bl == enter_yellow(w.beam)
    IN beam_access(
         leave_yellow(beam_close(r_purge_sent(beam_access(mutex_held(w, bl)))), bl))

\* the call ends with a look at the aborted flag, for the value it returns
h2_beam_close(w) ==
    LET bl == enter_yellow(w.beam)
    IN beam_access(
         leave_yellow(
           report_consumption(
             beam_close(r_purge_sent(beam_access(mutex_held(w, bl)))), FALSE), bl))

\* the value h2_beam_close returns
h2_beam_close_status(w) ==
    IF h2_beam_close(w).beam.aborted THEN "ECONNABORTED" ELSE "SUCCESS"

\* an abort that does not report the consumption
h2_beam_abort_silent(w) ==
    LET yellow(w0) ==
          cond_broadcast(
            IF ~w0.beam.aborted
            THEN [r_purge_sent([w0 EXCEPT !.beam.aborted = TRUE])
                    EXCEPT !.beam.send_list = h2_blist_cleanup(@)]
            ELSE w0)
        entered(bl) == leave_yellow(yellow(beam_access(mutex_held(w, bl))), bl)
    IN entered(enter_yellow(w.beam))

\* an abort that does not signal the condition variable
h2_beam_abort_quiet(w) ==
    LET yellow(w0) ==
          IF ~w0.beam.aborted
          THEN report_consumption(
                 [r_purge_sent([w0 EXCEPT !.beam.aborted = TRUE])
                    EXCEPT !.beam.send_list = h2_blist_cleanup(@)], FALSE)
          ELSE w0
        entered(bl) == leave_yellow(yellow(beam_access(mutex_held(w, bl))), bl)
    IN entered(enter_yellow(w.beam))

h2_beam_abort(w) ==
    LET yellow(w0) ==
          cond_broadcast(
            IF ~w0.beam.aborted
            THEN report_consumption(
                   [r_purge_sent([w0 EXCEPT !.beam.aborted = TRUE])
                      EXCEPT !.beam.send_list = h2_blist_cleanup(@)], FALSE)
            ELSE w0)
        entered(bl) == leave_yellow(yellow(beam_access(mutex_held(w, bl))), bl)
    IN entered(enter_yellow(w.beam))

\* h2_beam_wait_empty: one pass of its loop; resume as in h2_beam_send
h2_beam_wait_empty(w, block, resume) ==
    LET bl == enter_yellow(w.beam)
        status == IF resume = "timeup" THEN "TIMEUP" ELSE "SUCCESS"
        yellow(w0) ==
          IF status = "SUCCESS" /\ w0.beam.send_list /= <<>> /\ w0.beam.proxies /= <<>>
          THEN IF ~block \/ ~bl.mutex
               THEN [w |-> w0, status |-> "EAGAIN", wait |-> FALSE]
               ELSE [w |-> cond_broadcast(w0), status |-> "SUCCESS", wait |-> TRUE]
          ELSE [w |-> w0, status |-> status, wait |-> FALSE]
        left(r) ==
          [r EXCEPT !.w = IF r.wait THEN wait_cond(@, bl) ELSE leave_yellow(@, bl)]
    IN left(yellow(beam_access(mutex_held(w, bl))))

\* the proxies are unlinked but keep their beam and their bucket
detach_proxies_unlink(w) == [w EXCEPT !.beam.proxies = <<>>]

\* the loop of beam_send_cleanup over the proxies: each one is unlinked
\* and loses its beam and its bucket
detach_proxies(w) ==
    [w EXCEPT !.proxy = [m \in DOMAIN @ |->
                           IF \E i \in 1..Len(w.beam.proxies) : w.beam.proxies[i] = m
                           THEN [@[m] EXCEPT !.beam = FALSE, !.bred = NULL]
                           ELSE @[m]],
              !.beam.proxies = <<>>]

\* the hold list is left as it is
beam_send_cleanup_keep_hold(w) ==
    [detach_proxies(
        report_consumption(
          [r_purge_sent(beam_access(w))
             EXCEPT !.beam.send_list = h2_blist_cleanup(@)], FALSE))
       EXCEPT !.beam.purge_list = h2_blist_cleanup(@),
              !.beam.send_pool = FALSE]

beam_send_cleanup(w) ==
    [detach_proxies(
        report_consumption(
          [r_purge_sent(beam_access(w))
             EXCEPT !.beam.send_list = h2_blist_cleanup(@)], FALSE))
       EXCEPT !.beam.purge_list = h2_blist_cleanup(@),
              !.beam.hold_list = h2_blist_cleanup(@),
              !.beam.send_pool = FALSE]

\* beam_cleanup, run by h2_beam_destroy; a failed ap_assert is a fault
beam_cleanup(w) ==
    LET f1(w1) == w1.beam.send_list /= <<>> /\ ~w1.beam.send_pool
        f2(w1) == w1.beam.send_pool /\ w1.beam.m_enter
        f3(w2) == w2.beam.proxies /= <<>> \/ w2.beam.send_list /= <<>>
                  \/ w2.beam.hold_list /= <<>> \/ w2.beam.purge_list /= <<>>
        asserted(w1, w2) == [w2 EXCEPT !.fault = @ \/ f1(w1) \/ f2(w1) \/ f3(w2)]
        recv_side(w1) ==
          asserted(w1, IF w1.beam.send_pool /\ ~f1(w1) /\ ~f2(w1)
                       THEN beam_send_cleanup(w1) ELSE w1)
        closed(w0) ==
          IF w0.beam.owner = "SEND"
          THEN [beam_send_cleanup(w0) EXCEPT !.beam.recv_buffer = <<>>]
          ELSE recv_side([brigade_cleanup(w0, w0.beam.recv_buffer)
                            EXCEPT !.beam.recv_buffer = <<>>])
    IN closed(beam_close(beam_access(w)))

h2_beam_destroy(w) == beam_cleanup(w)

\* ------------------------------------------------------------- inputs
FDs == {1, 2}
DataLens == {MaxReadBytes, MaxLen}
ReadBytes == {0, MaxReadBytes}

Chunks ==
    [type : {"heap"}, length : DataLens, fd : {NULL}]
    \cup [type : {"other"}, length : {1}, fd : {NULL}]
    \cup [type : {"file"}, length : {MaxLen}, fd : FDs]
    \cup [type : {"eos", "flush"}, length : {0}, fd : {NULL}]

Brigades == UNION {[1..n -> Chunks] : n \in 0..MaxBatch}

\* what the environment can answer during a send of brigade red
SendEnvs(red) ==
    [io_ok : IF \E i \in 1..Len(red) : red[i].type \in {"pool", "other", "file"}
             THEN BOOLEAN ELSE {TRUE},
     can_beam : IF \E i \in 1..Len(red) : red[i].type = "file"
                THEN [FDs -> BOOLEAN] ELSE {[f \in FDs |-> TRUE]}]

\* whether apr_file_setaside can fail during a receive
SetasideOks(b) ==
    IF \E i \in 1..Len(b.send_list) : b.send_list[i].type = "file"
    THEN BOOLEAN ELSE {TRUE}

\* the beam after h2_beam_create and the setters of its configuration
\* (h2_beam_mutex_set, h2_beam_timeout_set, h2_beam_on_consumed, ...)
Configs ==
    LET C(size, timeout, owner, m_enter, m_cond) ==
          [max_buf_size |-> size, timeout |-> timeout, owner |-> owner,
           m_enter |-> m_enter, m_cond |-> m_cond]
    IN {C(0, 0, "RECV", FALSE, FALSE),
        C(MaxBufSize, 0, "SEND", TRUE, TRUE),
        C(MaxBufSize, 1, "RECV", TRUE, TRUE),
        C(MaxBufSize, 0, "SEND", TRUE, FALSE),
        C(MaxBufSize, 0, "SEND", FALSE, TRUE)}

IdleProd == [pc |-> "idle", red |-> <<>>, force |-> FALSE, woken |-> FALSE]
IdleCons == [pc |-> "idle", readbytes |-> 0, woken |-> FALSE]

Init ==
    /\ \E c \in Configs :
         beam = [send_list |-> <<>>, hold_list |-> <<>>, purge_list |-> <<>>,
                 proxies |-> <<>>, recv_buffer |-> <<>>,
                 closed |-> FALSE, aborted |-> FALSE, close_sent |-> FALSE,
                 sent_bytes |-> 0, received_bytes |-> 0,
                 reported_produced_bytes |-> 0, reported_consumed_bytes |-> 0,
                 buckets_sent |-> 0, files_beamed |-> 0, last_beamed |-> NULL,
                 send_pool |-> FALSE,
                 max_buf_size |-> c.max_buf_size, timeout |-> c.timeout,
                 owner |-> c.owner, m_enter |-> c.m_enter, m_cond |-> c.m_cond,
                 consumed_fn |-> TRUE, produced_fn |-> TRUE, can_beam_fn |-> TRUE]
    /\ proxy = <<>>
    /\ green = <<>>
    /\ prod = IdleProd
    /\ cons = IdleCons
    /\ cb = [produced |-> 0, consumed |-> 0]
    /\ hist = [nextId |-> 0, submitted |-> <<>>, delivered |-> <<>>,
               cleaned |-> FALSE]
    /\ sys = "running"
    /\ beamers = <<>>

\* ------------------------------------------------------------ actions
Commit(w) ==
    /\ beam' = w.beam
    /\ proxy' = w.proxy
    /\ cb' = w.cb
    /\ hist' = w.hist
    /\ beamers' = beamers

\* a broadcast wakes the thread that sleeps in wait_cond
Woken(t, w) == IF w.bcast /\ t.pc /= "idle" THEN [t EXCEPT !.woken = TRUE] ELSE t

\* wait_cond on a beam without condition variable: the wait on a NULL
\* condition is undefined; the call crashes or never comes back
WaitUndefined(w) ==
    /\ Commit(w)
    /\ sys' \in {"crashed", "hung"}
    /\ UNCHANGED <<green, prod, cons>>

\* where a step of h2_beam_send leaves the producer
SendStep(r, force) ==
    IF r.wait /\ ~beam.m_cond THEN WaitUndefined(r.w)
    ELSE /\ Commit(r.w)
         /\ sys' = IF r.w.fault THEN "crashed" ELSE sys
         /\ cons' = Woken(cons, r.w)
         /\ green' = green
         /\ IF r.wait
            THEN /\ prod' = [pc |-> "wait_space", red |-> r.red, force |-> force,
                             woken |-> FALSE]
            ELSE /\ prod' = IdleProd

\* the producer sends as long as its pool lives
SendCall ==
    /\ sys = "running" /\ prod.pc = "idle" /\ ~hist.cleaned
    /\ \E red \in Brigades :
         /\ hist.nextId + Len(red) <= MaxBuckets
         /\ \E block \in BOOLEAN, env \in SendEnvs(red) :
              SendStep(h2_beam_send(World, red, block, red /= <<>>, "enter", env),
                       red /= <<>>)

SendWake ==
    /\ sys = "running" /\ prod.pc = "wait_space" /\ prod.woken
    /\ \E env \in SendEnvs(prod.red) :
         SendStep(h2_beam_send(World, prod.red, TRUE, prod.force, "wake", env),
                  prod.force)

SendTimeout ==
    /\ sys = "running" /\ prod.pc = "wait_space" /\ beam.timeout > 0
    /\ \E env \in SendEnvs(prod.red) :
         SendStep(h2_beam_send(World, prod.red, TRUE, prod.force, "timeup", env),
                  prod.force)

\* the consumer's proxy buckets after the buckets of bb have joined them
RECURSIVE Held(_, _)
Held(g, bb) ==
    IF bb = <<>> THEN g
    ELSE IF Head(bb).type /= "beam" THEN Held(g, Tail(bb))
    ELSE LET n == Head(bb).data IN
         Held([m \in (DOMAIN g) \cup {n} |->
                 IF m = n THEN (IF n \in DOMAIN g THEN g[n] + 1 ELSE 1) ELSE g[m]],
              Tail(bb))

\* where a step of h2_beam_receive leaves the consumer: the buckets of bb
\* are the caller's now, the proxy buckets among them stay in view
ReceiveStep(r, readbytes) ==
    /\ Commit([r.w EXCEPT !.hist.delivered = @ \o GreenTokensOf(r.bb)])
    /\ sys' = IF r.w.fault THEN "crashed" ELSE sys
    /\ prod' = Woken(prod, r.w)
    /\ green' = Held(green, r.bb)
    /\ IF r.wait
       THEN /\ cons' = [pc |-> "recv_wait", readbytes |-> readbytes, woken |-> FALSE]
       ELSE /\ cons' = IdleCons

ReceiveCall ==
    /\ sys = "running" /\ cons.pc = "idle"
    /\ \E block \in BOOLEAN, readbytes \in ReadBytes, ok \in SetasideOks(beam) :
         ReceiveStep(h2_beam_receive(World, block, readbytes, ok, "enter"), readbytes)

ReceiveWake ==
    /\ sys = "running" /\ cons.pc = "recv_wait" /\ cons.woken
    /\ \E ok \in SetasideOks(beam) :
         ReceiveStep(h2_beam_receive(World, TRUE, cons.readbytes, ok, "wake"),
                     cons.readbytes)

ReceiveTimeout ==
    /\ sys = "running" /\ cons.pc = "recv_wait" /\ beam.timeout > 0
    /\ ReceiveStep(h2_beam_receive(World, TRUE, cons.readbytes, TRUE, "timeup"),
                   cons.readbytes)

WaitEmptyStep(r) ==
    IF r.wait /\ ~beam.m_cond THEN WaitUndefined(r.w)
    ELSE /\ Commit(r.w)
         /\ sys' = sys
         /\ prod' = Woken(prod, r.w)
         /\ green' = green
         /\ IF r.wait
            THEN /\ cons' = [pc |-> "empty_wait", readbytes |-> 0, woken |-> FALSE]
            ELSE /\ cons' = IdleCons

WaitEmptyCall ==
    /\ sys = "running" /\ cons.pc = "idle"
    /\ \E block \in BOOLEAN : WaitEmptyStep(h2_beam_wait_empty(World, block, "enter"))

WaitEmptyWake ==
    /\ sys = "running" /\ cons.pc = "empty_wait" /\ cons.woken
    /\ WaitEmptyStep(h2_beam_wait_empty(World, TRUE, "wake"))

WaitEmptyTimeout ==
    /\ sys = "running" /\ cons.pc = "empty_wait" /\ beam.timeout > 0
    /\ WaitEmptyStep(h2_beam_wait_empty(World, TRUE, "timeup"))

\* a call that never waits, made while the threads are where they are
Atomic(w) ==
    /\ Commit(w)
    /\ sys' = IF w.fault THEN "crashed" ELSE sys
    /\ prod' = Woken(prod, w)
    /\ cons' = Woken(cons, w)
    /\ green' = green

CloseCall ==
    /\ sys = "running" /\ prod.pc = "idle"
    /\ Atomic(h2_beam_close(World))

AbortCall ==
    /\ sys = "running"
    /\ Atomic(h2_beam_abort(World))

\* the pre-cleanup of the producer's pool, registered by beam_set_send_pool
SendPoolCleanup ==
    /\ sys = "running" /\ prod.pc = "idle"
    /\ beam.owner = "RECV" /\ beam.send_pool
    /\ Atomic([beam_send_cleanup(World) EXCEPT !.hist.cleaned = TRUE])

\* h2_beam_mutex_set(beam, NULL, NULL, NULL): the embedder takes the lock
\* hook away once the stream is closed and one thread only uses the beam
h2_beam_mutex_set(w, m_enter, m_cond) ==
    LET entered(bl) ==
          leave_yellow([beam_access(mutex_held(w, bl))
                          EXCEPT !.beam.m_enter = m_enter, !.beam.m_cond = m_cond], bl)
    IN entered(enter_yellow(w.beam))

MutexDisarm ==
    /\ sys = "running" /\ prod.pc = "idle" /\ cons.pc = "idle"
    /\ beam.m_enter /\ beam.owner = "RECV" /\ beam.send_pool /\ beam.closed
    /\ Atomic(h2_beam_mutex_set(World, FALSE, FALSE))

Destroyed(w) ==
    /\ Commit([w EXCEPT !.hist.cleaned = TRUE])
    /\ sys' = IF w.fault THEN "crashed" ELSE "destroyed"
    /\ UNCHANGED <<green, prod, cons>>

\* the owner's pool goes away; a receiver that owns the beam has taken
\* the lock hook away by then if the producer's pool still lives
Destroy ==
    /\ sys = "running" /\ prod.pc = "idle" /\ cons.pc = "idle"
    /\ ~(beam.owner = "RECV" /\ beam.send_pool /\ beam.m_enter)
    /\ Destroyed(h2_beam_destroy(World))

Dropped(w, n) ==
    /\ Commit(w)
    /\ sys' = IF w.fault THEN "crashed" ELSE sys
    /\ prod' = Woken(prod, w)
    /\ cons' = cons
    /\ green' = IF green[n] > 1 THEN [green EXCEPT ![n] = @ - 1]
                 ELSE [m \in (DOMAIN green) \ {n} |-> green[m]]

\* the consumer destroys one of the proxy buckets it holds
ProxyDrop ==
    /\ sys \in {"running", "destroyed"} /\ cons.pc = "idle"
    /\ \E n \in DOMAIN green : Dropped(beam_bucket_destroy(World, n), n)

Next ==
    \/ SendCall \/ SendWake \/ SendTimeout
    \/ ReceiveCall \/ ReceiveWake \/ ReceiveTimeout
    \/ WaitEmptyCall \/ WaitEmptyWake \/ WaitEmptyTimeout
    \/ CloseCall \/ AbortCall
    \/ SendPoolCleanup \/ MutexDisarm \/ Destroy \/ ProxyDrop

Spec == Init /\ [][Next]_vars

\* ------------------------------------------- the receive budget at work
\* a single-threaded beam without lock hook and without buffer limit,
\* received from with every budget up to MaxReadBytes, so that what was
\* put back into the receive buffer can be too long for the next budget
ReadBudgets == 0..MaxReadBytes

SpillInit == Init /\ ~beam.m_enter /\ ~beam.m_cond /\ beam.max_buf_size = 0

ReceiveBudget ==
    /\ sys = "running" /\ cons.pc = "idle"
    /\ \E block \in BOOLEAN, readbytes \in ReadBudgets, ok \in SetasideOks(beam) :
         ReceiveStep(h2_beam_receive(World, block, readbytes, ok, "enter"), readbytes)

SpillNext == SendCall \/ ReceiveBudget \/ CloseCall \/ ProxyDrop

SpillSpec == SpillInit /\ [][SpillNext]_vars

\* --------------------------------------------- waiting until woken up
\* a beam with lock hook and condition variable whose waits have no
\* timeout: a thread that sleeps in wait_cond runs again once the
\* condition has been signalled
AbortInit == Init /\ beam.m_enter /\ beam.m_cond /\ beam.timeout = 0

AbortNext ==
    \/ SendCall \/ SendWake
    \/ ReceiveCall \/ ReceiveWake
    \/ WaitEmptyCall \/ WaitEmptyWake
    \/ CloseCall \/ AbortCall \/ ProxyDrop

\* wait_cond returns: the signalled producer runs again, which is a step
\* of SendWake, the only action that takes a signalled sleeper's woken
\* flag away; it ends in a return or in a new sleep
ProducerRuns ==
    /\ sys = "running" /\ prod.pc = "wait_space" /\ prod.woken
    /\ prod' \in {IdleProd, [prod EXCEPT !.woken = FALSE]}

\* the same for the consumer: a step of ReceiveWake or WaitEmptyWake
ConsumerRuns ==
    /\ sys = "running" /\ cons.pc \in {"recv_wait", "empty_wait"} /\ cons.woken
    /\ cons' \in {IdleCons, [cons EXCEPT !.woken = FALSE]}

\* a signalled sleeper is not kept from running for ever
AbortSpec ==
    /\ AbortInit /\ [][AbortNext]_vars
    /\ WF_prod(ProducerRuns) /\ WF_cons(ConsumerRuns)

\* ------------------------------------- a proxy dropped during a cleanup
\* beam_bucket_destroy is not one step here: the consumer gives up its
\* reference and looks at d->beam (DropCheck), and calls h2_beam_emitted
\* afterwards (DropEmit); the cleanup of the producer's pool and the
\* destroy of a beam that the producer owns take no lock and can run in
\* between
RaceInit == Init /\ beam.m_enter /\ beam.m_cond

Linked(b, n) == \E i \in 1..Len(b.proxies) : b.proxies[i] = n

DropCheck ==
    /\ sys \in {"running", "destroyed"} /\ cons.pc = "idle"
    /\ \E n \in DOMAIN green :
         IF green[n] > 1 \/ proxy[n].refcount > 1 \/ ~proxy[n].beam
         THEN Dropped(beam_bucket_destroy(World, n), n)
         ELSE /\ cons' = [pc |-> "emit", readbytes |-> 0, woken |-> FALSE, n |-> n]
              /\ green' = [m \in (DOMAIN green) \ {n} |-> green[m]]
              /\ UNCHANGED <<beam, proxy, prod, cb, hist, sys, beamers>>

\* h2_beam_emitted(d->beam, d) and apr_bucket_free(d) with the d->beam
\* that DropCheck saw.  On a proxy that a cleanup has unlinked meanwhile
\* H2_BPROXY_REMOVE takes an entry out of a ring it is not in, and after
\* a destroy the beam itself is gone: the behaviour is undefined, the
\* call crashes or goes through
DropEmit ==
    /\ sys \in {"running", "destroyed"} /\ cons.pc = "emit"
    /\ LET n == cons.n
           freed(w) == [w EXCEPT !.proxy = [m \in (DOMAIN @) \ {n} |-> @[m]]]
           done(w) == /\ Commit(freed(w))
                      /\ prod' = Woken(prod, w)
                      /\ cons' = IdleCons
                      /\ green' = green
       IN /\ done(h2_beam_emitted(World, n))
          /\ IF sys = "running" /\ Linked(beam, n)
             THEN sys' = IF h2_beam_emitted(World, n).fault THEN "crashed" ELSE sys
             ELSE sys' \in {"crashed", sys}

\* h2_beam_destroy by the producer that owns the beam, as its pool goes
\* away; the consumer may be anywhere outside the beam's lock
OwnerDestroy ==
    /\ sys = "running" /\ prod.pc = "idle" /\ cons.pc \in {"idle", "emit"}
    /\ beam.owner = "SEND"
    /\ Destroyed(h2_beam_destroy(World))

RaceNext ==
    \/ SendCall \/ ReceiveCall \/ CloseCall
    \/ DropCheck \/ DropEmit
    \/ SendPoolCleanup \/ OwnerDestroy

RaceSpec == RaceInit /\ [][RaceNext]_vars

\* ------------------------------------------------- beamers at work
\* a beam that is used after bucket beamers have been registered, and
\* that is sent metadata buckets of a type of the embedder as well
BeamerKinds == {{"note"}, {"heap"}, {}}

BeamerInit == Init /\ ~beam.m_enter /\ ~beam.m_cond /\ beam.max_buf_size = 0

\* h2_register_bucket_beamer, called while the beam is unused
RegisterBeamer ==
    /\ sys = "running" /\ hist.nextId = 0 /\ Len(beamers) < MaxBeamers
    /\ \E k \in BeamerKinds : beamers' = Append(beamers, k)
    /\ UNCHANGED <<beam, proxy, green, prod, cons, cb, hist, sys>>

BeamerChunks ==
    [type : {"heap"}, length : {MaxReadBytes}, fd : {NULL}]
    \cup [type : {"note", "flush"}, length : {0}, fd : {NULL}]

BeamerSend ==
    /\ sys = "running" /\ prod.pc = "idle" /\ ~hist.cleaned
    /\ \E c \in BeamerChunks :
         /\ hist.nextId + 1 <= MaxBuckets
         /\ SendStep(h2_beam_send(World, <<c>>, FALSE, TRUE, "enter",
                                  [io_ok |-> TRUE, can_beam |-> [f \in FDs |-> TRUE]]),
                     TRUE)

BeamerNext == RegisterBeamer \/ BeamerSend \/ ReceiveCall \/ ProxyDrop

BeamerSpec == BeamerInit /\ [][BeamerNext]_vars

\* ================================================================ claims
\* the calls a thread that is not inside the beam can make next
FreshSends ==
    {c \in [red : Brigades, block : BOOLEAN] :
        hist.nextId + Len(c.red) <= MaxBuckets}

CanSend == sys = "running" /\ prod.pc = "idle" /\ ~hist.cleaned
CanReceive == sys = "running" /\ cons.pc = "idle"

\* what the consumer got, without the end-of-stream receive made itself
DeliveredStream == SelectSeq(hist.delivered, LAMBDA t : t /= TokEOSClose)

EOSDelivered ==
    Cardinality({i \in DOMAIN hist.delivered :
                    hist.delivered[i] \in {TokEOS, TokEOSClose}})

\* ------------------------------------------------------------------ C1
\* C1: what the receive calls have appended to their destinations, in
\* order, is a prefix of what the send calls have put into the beam, data
\* bytes and markers alike, so every marker keeps its place among the
\* bytes; while the beam is neither aborted nor cleaned up the rest of the
\* stream is what the receive buffer and the send list hold, in order, so
\* a drained beam has delivered all of it.
C1_OrderPreserved ==
    /\ IsPrefix(DeliveredStream, hist.submitted)
    /\ (~beam.aborted /\ ~hist.cleaned) =>
          hist.submitted = DeliveredStream \o GreenTokensOf(beam.recv_buffer)
                              \o TokensOf(beam.send_list)

\* a closed beam drained over several receives, one of which put the tail
\* of a split bucket back, with a flush between the data
C1_Witness ==
    /\ beam.closed /\ ~beam.aborted /\ ~hist.cleaned
    /\ beam.send_list = <<>> /\ beam.recv_buffer = <<>>
    /\ Len(hist.submitted) >= MaxLen + 2
    /\ \E i \in 2..(Len(hist.submitted) - 1) : hist.submitted[i] = TokFLUSH
    /\ DeliveredStream = hist.submitted
    /\ \E n \in DOMAIN proxy : proxy[n].refcount > 1

\* ------------------------------------------------------------------ C2
\* C2: with max_buf_size = N > 0, whenever no send call is in progress the
\* buffered size (the lengths of the chunks of the send list, files not
\* counted) is at most N.
C2_BoundedBuffer ==
    (prod.pc = "idle" /\ beam.max_buf_size > 0 /\ ~beam.aborted)
        => calc_buffered(beam) <= beam.max_buf_size

\* ------------------------------------------------------------------ C3
\* C3: over the lifetime of a beam the receive calls deliver an
\* end-of-stream marker only if the producer sent one or the beam was
\* closed, one once the close has reached the consumer, and never a
\* second one.
C3_OneEndOfStream ==
    /\ EOSDelivered <= 1
    /\ EOSDelivered = 1 => beam.closed
    /\ beam.close_sent => EOSDelivered = 1

\* ------------------------------------------------------------------ C4
\* on an aborted beam every send call that starts returns connection-aborted
\* at once, and every receive call that starts returns connection-aborted,
\* appends nothing and leaves the receive buffer empty
AbortedCallsFail ==
    (beam.aborted /\ sys = "running") =>
        /\ CanSend =>
             \A c \in FreshSends : \A env \in SendEnvs(c.red) :
                LET r == h2_beam_send(World, c.red, c.block, c.red /= <<>>,
                                      "enter", env)
                IN r.status = "ECONNABORTED" /\ ~r.wait /\ r.w.beam.aborted
        /\ CanReceive =>
             \A block \in BOOLEAN, readbytes \in ReadBytes :
                LET r == h2_beam_receive(World, block, readbytes, TRUE, "enter")
                IN /\ r.status = "ECONNABORTED" /\ ~r.wait
                   /\ r.bb = <<>>
                   /\ r.w.beam.recv_buffer = <<>>
                   /\ r.w.beam.aborted

\* C4: once the beam is aborted, every later send call and every later
\* receive call returns connection-aborted, the receive appends nothing
\* and empties the receive buffer, and no operation clears the aborted flag.
C4_AbortIsFinal ==
    /\ []AbortedCallsFail
    /\ [][beam.aborted => beam'.aborted]_vars

\* an aborted beam whose receive buffer still holds the tail of a split
\* bucket, with both threads free to call
C4_Witness ==
    /\ beam.aborted /\ CanSend /\ CanReceive
    /\ beam.recv_buffer /= <<>>
    /\ hist.nextId < MaxBuckets

\* ------------------------------------------------------------------ C5
\* C5: after the beam is destroyed, and after the producer's pool cleanup
\* has run, every proxy still alive has lost its beam and its bucket: a
\* read of it gives connection-reset with no data, and destroying it
\* leaves the beam as it is.  At any time a proxy that still has a bucket
\* has one that is in the hold list, never a freed one.
C5_NoDanglingProxies ==
    /\ \A n \in DOMAIN proxy :
          proxy[n].bred /= NULL => proxy[n].bred \in Ids(beam.hold_list)
    /\ hist.cleaned =>
          \A n \in DOMAIN proxy :
             /\ ~proxy[n].beam
             /\ proxy[n].bred = NULL
             /\ beam_bucket_read(proxy, [data |-> n, length |-> 1])
                   = [status |-> "ECONNRESET", len |-> 0]
             /\ beam_bucket_destroy(World, n).beam = beam

\* a destroyed beam of which the consumer still holds proxy buckets
C5_Witness ==
    /\ sys = "destroyed"
    /\ \E n \in DOMAIN green : n \in DOMAIN proxy /\ proxy[n].refcount >= 1
    /\ Cardinality(DOMAIN proxy) >= 2

\* ------------------------------------------------------------------ C6
LiveProxies == {n \in DOMAIN proxy : proxy[n].beam /\ proxy[n].bred /= NULL}

NoPurgedChunkReferenced ==
    \A i \in 1..Len(beam.purge_list) : \A n \in DOMAIN proxy :
        proxy[n].bred /= beam.purge_list[i].id

\* C6 as the specification words it: the hold list has as many chunks as
\* there are source chunks referenced by a live proxy, and no chunk of the
\* purge list is referenced by a live proxy.
C6_HoldEqualsProxies ==
    /\ Len(beam.hold_list) = Cardinality({proxy[n].bred : n \in LiveProxies})
    /\ NoPurgedChunkReferenced

\* C6, amended: the data chunks of the hold list (neither metadata nor
\* file) are exactly the source chunks of the live proxies, one proxy
\* each, and these proxies are the ones linked to the beam; metadata and
\* file chunks are in the hold list without a proxy; no chunk of the purge
\* list is referenced by a proxy.
C6_HoldProxyConservation ==
    LET hold == beam.hold_list
        data == {i \in 1..Len(hold) : ~APR_BUCKET_IS_METADATA(hold[i])
                                       /\ ~APR_BUCKET_IS_FILE(hold[i])}
    IN /\ \A i \in data :
             Cardinality({n \in LiveProxies : proxy[n].bred = hold[i].id}) = 1
       /\ \A n \in LiveProxies : \E i \in data : proxy[n].bred = hold[i].id
       /\ LiveProxies = {beam.proxies[i] : i \in 1..Len(beam.proxies)}
       /\ Len(beam.proxies) = Cardinality(LiveProxies)
       /\ NoPurgedChunkReferenced

\* two data chunks and a marker in the hold list, the first data chunk
\* already purged by the drop of its proxy
C6_Witness ==
    /\ Cardinality(LiveProxies) = 1
    /\ \E i \in 1..Len(beam.hold_list) : APR_BUCKET_IS_METADATA(beam.hold_list[i])
    /\ Len(beam.hold_list) = 2
    /\ beam.purge_list /= <<>>

\* ------------------------------------------------------------------ C7
\* C7: a wait-empty call that returns success is made in a state where
\* the send list is empty and no proxy of the beam is alive; otherwise a
\* non-blocking call returns again and a blocking one waits.
C7_WaitEmpty ==
    CanReceive =>
        \A block \in BOOLEAN :
           LET r == h2_beam_wait_empty(World, block, "enter")
           IN IF beam.send_list = <<>> /\ beam.proxies = <<>>
              THEN r.status = "SUCCESS" /\ ~r.wait
              ELSE IF block /\ beam.m_enter THEN r.wait
              ELSE r.status = "EAGAIN" /\ ~r.wait

\* ------------------------------------------------------------------ C8
\* scenario S5 before the drop: D1 and the flush M received and held, D2
\* still to be received, the beam closed, P1 the only proxy
S5Received ==
    /\ sys = "running" /\ cons.pc = "idle"
    /\ beam.closed /\ ~beam.aborted /\ ~hist.cleaned
    /\ Len(beam.hold_list) = 2 /\ Len(beam.send_list) = 1
    /\ beam.hold_list[1].type = "heap" /\ beam.hold_list[2].type = "flush"
    /\ beam.send_list[1].type = "heap"
    /\ beam.purge_list = <<>> /\ beam.recv_buffer = <<>>
    /\ DOMAIN proxy = {0} /\ proxy[0].refcount = 1
    /\ proxy[0].bred = beam.hold_list[1].id
    /\ DOMAIN green = {0}

\* scenario S5 after the drop: P1 is gone, D2 has not been received
S5Dropped ==
    /\ sys = "running"
    /\ beam.closed /\ ~beam.aborted /\ ~hist.cleaned
    /\ Len(beam.send_list) = 1 /\ beam.send_list[1].type = "heap"
    /\ beam.recv_buffer = <<>>
    /\ DOMAIN proxy = {} /\ beam.buckets_sent = 1
    /\ Len(hist.delivered) >= 2
    /\ hist.delivered[Len(hist.delivered)] = TokFLUSH
    /\ hist.nextId = 3

\* the producer's next send or close frees what is in the purge list and
\* leaves the hold list alone
S5NextProducerCall ==
    (S5Dropped /\ prod.pc = "idle") =>
        /\ h2_beam_close(World).beam.purge_list = <<>>
        /\ h2_beam_close(World).beam.hold_list = beam.hold_list
        /\ \A c \in FreshSends : \A env \in SendEnvs(c.red) :
              LET r == h2_beam_send(World, c.red, c.block, c.red /= <<>>,
                                    "enter", env)
              IN /\ r.w.beam.purge_list = <<>>
                 /\ r.w.beam.hold_list = beam.hold_list

\* C8 as the specification words it: the drop of P1 moves both D1 and M
\* from the hold list to the purge list and leaves D2 in the send list.
C8_BothPurged ==
    [][(S5Received /\ DOMAIN proxy' = {} /\ sys' = "running") =>
          /\ beam'.hold_list = <<>>
          /\ Ids(beam'.purge_list) = Ids(beam.hold_list)
          /\ beam'.send_list = beam.send_list]_vars

\* C8, amended: the drop of P1 takes D1 out of the hold list, to the purge
\* list (under a lock hook) or freed at once (without one); M, which came
\* after D1, stays in the hold list; D2 stays in the send list; the
\* producer's next send or close empties the purge list and leaves M held.
C8_ProxyDropOrdering ==
    /\ [][(S5Received /\ DOMAIN proxy' = {} /\ sys' = "running") =>
             /\ beam'.hold_list = <<beam.hold_list[2]>>
             /\ beam'.purge_list = IF beam.m_enter THEN <<beam.hold_list[1]>>
                                   ELSE <<>>
             /\ beam'.send_list = beam.send_list]_vars
    /\ [](S5Dropped =>
             /\ Len(beam.hold_list) = 1 /\ beam.hold_list[1].type = "flush"
             /\ Len(beam.purge_list) <= 1
             /\ \A i \in 1..Len(beam.purge_list) : beam.purge_list[i].type = "heap")
    /\ []S5NextProducerCall

\* P1 dropped under a lock hook: D1 waits in the purge list for the
\* producer, M is held, D2 is in the send list
C8_Witness ==
    /\ S5Dropped /\ prod.pc = "idle" /\ beam.m_enter
    /\ Len(beam.purge_list) = 1 /\ beam.purge_list[1].type = "heap"
    /\ Len(beam.hold_list) = 1 /\ beam.hold_list[1].type = "flush"

\* ------------------------------------------------------------------ C9
\* C9 as the specification words it: whenever no beam operation is in
\* progress, the deltas given to the consumed callback add up to
\* received_bytes.
C9_ConsumedAtRest ==
    (sys = "running" /\ prod.pc = "idle" /\ cons.pc = "idle")
        => cb.consumed = beam.received_bytes

\* C9, amended: the deltas given to the consumed callback add up to
\* reported_consumed_bytes, which never exceeds received_bytes, and they
\* add up to received_bytes when a send call returns, when close or abort
\* returns and when the producer's pool cleanup has run: the consumption
\* is reported on the producer's side, not by the receive call.
C9_ConsumedAccounting ==
    /\ cb.consumed = beam.reported_consumed_bytes
    /\ cb.consumed <= beam.received_bytes
    /\ CanSend =>
          /\ \A c \in FreshSends : \A env \in SendEnvs(c.red) :
                LET r == h2_beam_send(World, c.red, c.block, c.red /= <<>>,
                                      "enter", env)
                IN ~r.wait => r.w.cb.consumed = r.w.beam.received_bytes
          /\ LET w == h2_beam_close(World)
             IN w.cb.consumed = w.beam.received_bytes
    /\ (sys = "running" /\ prod.pc = "wait_space") =>
          \A resume \in {"wake", "timeup"} : \A env \in SendEnvs(prod.red) :
             LET r == h2_beam_send(World, prod.red, TRUE, prod.force, resume, env)
             IN ~r.wait => r.w.cb.consumed = r.w.beam.received_bytes
    /\ sys = "running" =>
          LET w == h2_beam_abort(World)
          IN w.cb.consumed = w.beam.received_bytes
    /\ (sys = "running" /\ beam.send_pool) =>
          LET w == beam_send_cleanup(World)
          IN w.cb.consumed = w.beam.received_bytes

\* the consumer has received bytes that no producer call has reported yet
C9_Witness ==
    /\ sys = "running" /\ prod.pc = "idle" /\ cons.pc = "idle"
    /\ ~beam.closed /\ ~beam.aborted
    /\ 0 < cb.consumed /\ cb.consumed < beam.received_bytes

\* ----------------------------------------------------------------- C10
\* C10: whenever a send call has returned or the producer waits for space
\* inside a send call, the deltas given to the produced callback add up to
\* sent_bytes; each delta is sent_bytes less reported_produced_bytes, so
\* the sum is reported_produced_bytes as well.
C10_ProducedAccounting ==
    /\ cb.produced = beam.reported_produced_bytes
    /\ prod.pc \in {"idle", "wait_space"} => cb.produced = beam.sent_bytes

\* the producer waits for space after a part of its brigade went in
C10_Witness ==
    /\ sys = "running" /\ prod.pc = "wait_space"
    /\ beam.sent_bytes > 0 /\ cb.produced = beam.sent_bytes
    /\ beam.received_bytes = 0

\* ----------------------------------------------------------------- C11
\* what a call leaves behind: the beam (queues, proxy list, flags,
\* counters, reported counters), the proxies, what the callbacks were told
\* and whether an assertion failed
Outcome(w) == [beam |-> w.beam, proxy |-> w.proxy, cb |-> w.cb, fault |-> w.fault]

DestroyAllowed ==
    /\ sys = "running" /\ prod.pc = "idle" /\ cons.pc = "idle"
    /\ ~(beam.owner = "RECV" /\ beam.send_pool /\ beam.m_enter)

\* C11: close called twice in a row, abort called twice in a row and
\* destroy called twice in a row leave the beam, its proxies and the sums
\* the callbacks were told as one call does: the second call changes
\* nothing and reports no delta.
C11_Idempotent ==
    /\ (sys = "running" /\ prod.pc = "idle") =>
          Outcome(h2_beam_close(h2_beam_close(World))) = Outcome(h2_beam_close(World))
    /\ sys = "running" =>
          Outcome(h2_beam_abort(h2_beam_abort(World))) = Outcome(h2_beam_abort(World))
    /\ DestroyAllowed =>
          Outcome(h2_beam_destroy(h2_beam_destroy(World)))
             = Outcome(h2_beam_destroy(World))

\* an open beam with unreported consumption, a bucket to purge and one to
\* send: the first close, abort or destroy changes it and tells the
\* consumed callback a delta
C11_Witness ==
    /\ DestroyAllowed
    /\ ~beam.closed /\ ~beam.aborted
    /\ beam.purge_list /= <<>> /\ beam.send_list /= <<>>
    /\ beam.received_bytes /= beam.reported_consumed_bytes
    /\ h2_beam_close(World).cb /= cb
    /\ h2_beam_abort(World).cb /= cb
    /\ h2_beam_destroy(World).cb /= cb

\* ----------------------------------------------------------------- C12
\* what a call leaves behind, the closed flag and the chunks that wait in
\* the purge list for their deletion put aside
OutcomeButClosed(w) ==
    [Outcome(w) EXCEPT !.beam.closed = TRUE, !.beam.purge_list = <<>>]

\* the calls that can follow have the same results on w1 and on w2 and
\* leave the same behind, compared by same(_, _)
SameResults(w1, w2, same(_, _)) ==
    /\ ~w1.hist.cleaned =>
          \A c \in FreshSends : \A env \in SendEnvs(c.red) :
             LET r1 == h2_beam_send(w1, c.red, c.block, c.red /= <<>>, "enter", env)
                 r2 == h2_beam_send(w2, c.red, c.block, c.red /= <<>>, "enter", env)
             IN /\ r1.status = r2.status /\ r1.wait = r2.wait /\ r1.red = r2.red
                /\ same(r1.w, r2.w)
    /\ cons.pc = "idle" =>
          /\ \A block \in BOOLEAN, readbytes \in ReadBytes :
                LET r1 == h2_beam_receive(w1, block, readbytes, TRUE, "enter")
                    r2 == h2_beam_receive(w2, block, readbytes, TRUE, "enter")
                IN /\ r1.status = r2.status /\ r1.wait = r2.wait /\ r1.bb = r2.bb
                   /\ same(r1.w, r2.w)
          /\ \A block \in BOOLEAN :
                LET r1 == h2_beam_wait_empty(w1, block, "enter")
                    r2 == h2_beam_wait_empty(w2, block, "enter")
                IN /\ r1.status = r2.status /\ r1.wait = r2.wait
                   /\ same(r1.w, r2.w)
    /\ h2_beam_close_status(w1) = h2_beam_close_status(w2)
    /\ same(h2_beam_close(w1), h2_beam_close(w2))

\* C12 as the specification words it: close then abort, and abort then
\* close, leave the beam in the state a single abort leaves it in, the
\* closed flag included, with the same results for the calls that follow.
C12_AbortAbsorbsClose ==
    (sys = "running" /\ prod.pc = "idle") =>
        LET same(w1, w2) == Outcome(w1) = Outcome(w2)
        IN /\ same(h2_beam_abort(h2_beam_close(World)), h2_beam_abort(World))
           /\ same(h2_beam_close(h2_beam_abort(World)), h2_beam_abort(World))
           /\ SameResults(h2_beam_abort(h2_beam_close(World)), h2_beam_abort(World), same)
           /\ SameResults(h2_beam_close(h2_beam_abort(World)), h2_beam_abort(World), same)

\* C12, amended: close then abort, and abort then close, leave the beam
\* closed, its purge list empty and all the rest (flags aborted and
\* close_sent, the other queues, counters, reported counters) as a single
\* abort leaves it; a single abort leaves the closed flag as it was and, on
\* a beam that was aborted before, the purge list as it was; every send,
\* receive, close and wait-empty that follows has the same result after
\* each of the three and again leaves the same behind but for the closed
\* flag and the purge list.
C12_AbortAbsorbsCloseButFlag ==
    (sys = "running" /\ prod.pc = "idle") =>
        LET same(w1, w2) == OutcomeButClosed(w1) = OutcomeButClosed(w2)
            ca == h2_beam_abort(h2_beam_close(World))
            ac == h2_beam_close(h2_beam_abort(World))
            a == h2_beam_abort(World)
        IN /\ same(ca, a)
           /\ same(ac, a)
           /\ ca.beam.closed /\ ca.beam.purge_list = <<>>
           /\ ac.beam.closed /\ ac.beam.purge_list = <<>>
           /\ a.beam.closed = beam.closed
           /\ a.beam.purge_list = IF beam.aborted THEN beam.purge_list ELSE <<>>
           /\ SameResults(ca, a, same)
           /\ SameResults(ac, a, same)

\* an open beam with chunks in the send list and the receive buffer and
\* unreported consumption, both threads free to call: abort alone leaves
\* it open, close and abort leave it closed
C12_Witness ==
    /\ sys = "running" /\ prod.pc = "idle" /\ cons.pc = "idle" /\ ~hist.cleaned
    /\ ~beam.closed /\ ~beam.aborted
    /\ beam.send_list /= <<>> /\ beam.recv_buffer /= <<>>
    /\ beam.received_bytes /= beam.reported_consumed_bytes
    /\ hist.nextId < MaxBuckets
    /\ ~h2_beam_abort(World).beam.closed
    /\ h2_beam_abort(h2_beam_close(World)).beam.closed

\* ----------------------------------------------------------------- C13
\* the stream the beam still has for the consumer
Pending(b) == GreenTokensOf(b.recv_buffer) \o TokensOf(b.send_list)

\* C13: a receive with readbytes = n > 0 into an empty destination appends
\* at most n bytes, and exactly n if the receive buffer and the send list
\* hold that many; what it appends, what it leaves in the receive buffer
\* and what it leaves in the send list are, in this order, what the
\* receive buffer and the send list held before, so the chunk that goes
\* over the budget is split at the budget, its tail waits in the receive
\* buffer, nothing that was in the receive buffer is lost and the receive
\* buffer is delivered before anything of the send list.
C13_ReceiveBudget ==
    (CanReceive /\ ~beam.aborted) =>
        \A block \in BOOLEAN, n \in 1..MaxReadBytes, ok \in SetasideOks(beam) :
           LET r == h2_beam_receive(World, block, n, ok, "enter")
               got == SelectSeq(GreenTokensOf(r.bb), LAMBDA t : t /= TokEOSClose)
               had == SumLen(beam.recv_buffer) + SumLen(beam.send_list)
           IN /\ SumLen(r.bb) <= n
              /\ (had >= n /\ ~r.leave) => SumLen(r.bb) = n
              /\ r.w.beam.recv_buffer /= <<>> =>
                    /\ SumLen(r.bb) = n
                    /\ Len(r.w.beam.recv_buffer) = 1
                    /\ r.w.beam.recv_buffer[1].length > 0
              /\ got \o Pending(r.w.beam) = Pending(beam)
              /\ ~r.w.fault

\* the receive buffer holds a tail that is longer than the smallest
\* budget, with more to come in the send list: the next receive spills the
\* tail again
C13_Witness ==
    /\ CanReceive /\ ~beam.aborted
    /\ Len(beam.recv_buffer) = 1 /\ beam.recv_buffer[1].length > 1
    /\ beam.recv_buffer[1].start > 0
    /\ beam.send_list /= <<>>
    /\ h2_beam_receive(World, FALSE, 1, TRUE, "enter").w.beam.recv_buffer /= <<>>

\* ----------------------------------------------------------------- C14
\* a chunk whose length counts for the buffer: neither metadata nor file
Counted(c) == ~APR_BUCKET_IS_METADATA(c) /\ ~APR_BUCKET_IS_FILE(c)

\* the chunks a send has admitted are at the tail of the send list, after
\* what was there, with their lengths
Admitted(b0, b1, red, k) ==
    /\ Len(b1.send_list) = Len(b0.send_list) + k
    /\ IsPrefix(b0.send_list, b1.send_list)
    /\ \A i \in 1..k : b1.send_list[Len(b0.send_list) + i].length = red[i].length

\* C14: a non-blocking send never waits.  It returns again exactly when
\* the chunk it has come to is data of non-zero length that counts for the
\* buffer and the space left is zero (the purge list has been drained at
\* the call's start): that chunk and the rest of the brigade stay with the
\* caller, the chunks before it are in the send list.  Once a receive has
\* made space, the same non-blocking send gets the refused chunk in.
C14_NonBlockingSend ==
    (CanSend /\ ~beam.aborted) =>
        \A c \in FreshSends : \A env \in SendEnvs(c.red) :
           c.block \/
           LET r == h2_beam_send(World, c.red, FALSE, c.red /= <<>>, "enter", env)
               k == Len(c.red) - Len(r.red)
               again == r.status = "EAGAIN"
           IN /\ ~r.wait
              /\ r.w.beam.purge_list = <<>>
              /\ r.status = "SUCCESS" => r.red = <<>>
              /\ again =>
                    /\ r.red /= <<>> /\ r.red = SubSeq(c.red, k + 1, Len(c.red))
                    /\ Counted(Head(r.red)) /\ Head(r.red).length > 0
                    /\ calc_space_left(r.w.beam) = 0
              /\ (~again /\ r.red /= <<>> /\ Counted(Head(r.red))) =>
                    calc_space_left(r.w.beam) > 0
              /\ (c.red /= <<>> /\ Counted(Head(c.red))) =>
                    ((calc_space_left(beam) = 0) <=> (again /\ r.red = c.red))
              /\ r.status \in {"SUCCESS", "EAGAIN"} => Admitted(beam, r.w.beam, c.red, k)
              /\ (again /\ CanReceive) =>
                    \A readbytes \in ReadBytes, ok \in SetasideOks(r.w.beam) :
                       LET v == h2_beam_receive(r.w, FALSE, readbytes, ok, "enter")
                           s == h2_beam_send(v.w, r.red, FALSE, TRUE, "enter", env)
                       IN calc_space_left(v.w.beam) > 0 =>
                             /\ ~s.wait
                             /\ s.status /= "EAGAIN" \/ Len(s.red) < Len(r.red)
                             /\ (Len(r.red) = 1 /\ env.io_ok) => s.status = "SUCCESS"

\* scenario S3: the buffer is full, a non-blocking send of one more chunk
\* returns again with the chunk left to the caller, and succeeds after a
\* receive of a part of what is buffered
C14_Witness ==
    /\ CanSend /\ CanReceive /\ ~beam.aborted /\ ~beam.closed
    /\ beam.max_buf_size > 0 /\ calc_space_left(beam) = 0
    /\ hist.nextId < MaxBuckets
    /\ LET e == [io_ok |-> TRUE, can_beam |-> [f \in FDs |-> TRUE]]
           red == <<[type |-> "heap", length |-> MaxReadBytes, fd |-> NULL]>>
           r == h2_beam_send(World, red, FALSE, TRUE, "enter", e)
           v == h2_beam_receive(r.w, FALSE, MaxReadBytes, TRUE, "enter")
           s == h2_beam_send(v.w, r.red, FALSE, TRUE, "enter", e)
       IN /\ r.status = "EAGAIN" /\ r.red = red
          /\ v.status = "SUCCESS" /\ v.w.beam.recv_buffer /= <<>>
          /\ s.status = "SUCCESS" /\ s.red = <<>>

\* ----------------------------------------------------------------- C15
\* nothing waits for the consumer in the beam
Drained(b) == b.send_list = <<>> /\ b.recv_buffer = <<>>

BeamState(b) ==
    [send_list |-> b.send_list, hold_list |-> b.hold_list,
     purge_list |-> b.purge_list, recv_buffer |-> b.recv_buffer,
     proxies |-> b.proxies,
     closed |-> b.closed, aborted |-> b.aborted, close_sent |-> b.close_sent,
     sent_bytes |-> b.sent_bytes, received_bytes |-> b.received_bytes,
     reported_produced_bytes |-> b.reported_produced_bytes,
     reported_consumed_bytes |-> b.reported_consumed_bytes,
     buckets_sent |-> b.buckets_sent, files_beamed |-> b.files_beamed,
     last_beamed |-> b.last_beamed]

\* a blocking send that goes to sleep and is timed out before any other
\* call is made returns timed-out with the beam as it was at the call
SendTimeoutNoChange ==
    (CanSend /\ beam.timeout > 0) =>
        \A c \in FreshSends : \A env \in SendEnvs(c.red) :
           LET r == h2_beam_send(World, c.red, TRUE, c.red /= <<>>, "enter", env)
               t == h2_beam_send(r.w, r.red, TRUE, c.red /= <<>>, "timeup", env)
           IN r.wait => (t.status = "TIMEUP" /\ ~t.wait
                         /\ BeamState(t.w.beam) = BeamState(beam))

\* the same for a blocking receive and a blocking wait-empty
ReceiveTimeoutNoChange ==
    (CanReceive /\ beam.timeout > 0) =>
        /\ \A readbytes \in ReadBytes, ok \in SetasideOks(beam) :
              LET r == h2_beam_receive(World, TRUE, readbytes, ok, "enter")
                  t == h2_beam_receive(r.w, TRUE, readbytes, ok, "timeup")
              IN r.wait => (t.status = "TIMEUP" /\ ~t.wait /\ t.bb = <<>>
                            /\ BeamState(t.w.beam) = BeamState(beam))
        /\ LET r == h2_beam_wait_empty(World, TRUE, "enter")
               t == h2_beam_wait_empty(r.w, TRUE, "timeup")
           IN r.wait => (t.status = "TIMEUP" /\ ~t.wait
                         /\ BeamState(t.w.beam) = BeamState(beam))

\* a call that sleeps, whatever the other thread has done meanwhile, is
\* timed out without a change to the beam, and a wake-up that sends it
\* back to sleep changes nothing either
WaitingNoChange ==
    (sys = "running" /\ beam.timeout > 0) =>
        /\ prod.pc = "wait_space" =>
              \A resume \in {"wake", "timeup"} : \A env \in SendEnvs(prod.red) :
                 LET t == h2_beam_send(World, prod.red, TRUE, prod.force, resume, env)
                 IN (resume = "timeup" \/ t.wait) =>
                       BeamState(t.w.beam) = BeamState(beam)
        /\ cons.pc = "recv_wait" =>
              \A resume \in {"wake", "timeup"} :
                 LET t == h2_beam_receive(World, TRUE, cons.readbytes, TRUE, resume)
                 IN (resume = "timeup" \/ t.wait) =>
                       BeamState(t.w.beam) = BeamState(beam)
        /\ cons.pc = "empty_wait" =>
              \A resume \in {"wake", "timeup"} :
                 LET t == h2_beam_wait_empty(World, TRUE, resume)
                 IN (resume = "timeup" \/ t.wait) =>
                       BeamState(t.w.beam) = BeamState(beam)

\* C16: whenever send, receive or wait-empty returns timed-out, the queues,
\* flags and counters of the beam are at the return what they were at the
\* start of the call, also for a send of a brigade of several chunks.
C16_TimeoutNoChange ==
    SendTimeoutNoChange /\ ReceiveTimeoutNoChange /\ WaitingNoChange

\* ----------------------------------------------------------------- C17
\* brigades of file chunks
FileBrigades ==
    {red \in Brigades : red /= <<>> /\ \A i \in 1..Len(red) : APR_BUCKET_IS_FILE(red[i])}

\* how often the callback was asked about handle f
Asked(w, f) == Cardinality({i \in 1..Len(w.asked) : w.asked[i] = f})

\* a file chunk the callback refuses is read and copied: it arrives in the
\* send list as a heap chunk of its length, and last_beamed stays
RefusedIsCopied ==
    (CanSend /\ ~beam.aborted /\ hist.nextId < MaxBuckets) =>
        \A f \in FDs : \A block \in BOOLEAN :
           LET red == <<[type |-> "file", length |-> MaxLen, fd |-> f]>>
               env == [io_ok |-> TRUE, can_beam |-> [g \in FDs |-> FALSE]]
               r == h2_beam_send(World, red, block, TRUE, "enter", env)
           IN beam.last_beamed /= f =>
                 /\ r.status = "SUCCESS" /\ ~r.wait /\ r.red = <<>>
                 /\ Asked(r.w, f) = 1
                 /\ r.w.beam.last_beamed = beam.last_beamed
                 /\ Len(r.w.beam.send_list) = Len(beam.send_list) + 1
                 /\ LET nb == r.w.beam.send_list[Len(r.w.beam.send_list)]
                    IN nb.type = "heap" /\ nb.length = MaxLen

\* over the sends that follow a state, two calls with MaxBuckets chunks at
\* most between them, the callback is asked at most once about a handle
AskedOnce ==
    (CanSend /\ ~beam.aborted) =>
        \A red1 \in FileBrigades, red2 \in FileBrigades :
           hist.nextId + Len(red1) + Len(red2) <= MaxBuckets =>
              \A can_beam \in [FDs -> BOOLEAN] :
                 LET env == [io_ok |-> TRUE, can_beam |-> can_beam]
                     r1 == h2_beam_send(World, red1, FALSE, TRUE, "enter", env)
                     r2 == h2_beam_send(r1.w, red2, FALSE, TRUE, "enter", env)
                 IN \A f \in FDs : Asked(r2.w, f) <= 1

\* C17: over the sends on a beam the file-beam callback is asked at most
\* once about each file handle, also about a handle it refused and about
\* handles that come as A, B, A; a refused file chunk is read and copied
\* and does not become last_beamed.
C17_FileBeamOnce == AskedOnce /\ RefusedIsCopied

\* ----------------------------------------------------------------- C18
\* the producer sleeps in a send, the consumer in a receive, on a beam
\* that has been aborted
ProducerAborted == sys = "running" /\ beam.aborted /\ prod.pc = "wait_space"
ConsumerAborted == sys = "running" /\ beam.aborted /\ cons.pc = "recv_wait"

\* the sleeper has been signalled, and when it runs its call returns
\* connection-aborted with nothing admitted or transferred
AbortedWaiterReturns ==
    /\ ProducerAborted =>
          /\ prod.woken
          /\ \A env \in SendEnvs(prod.red) :
                LET r == h2_beam_send(World, prod.red, TRUE, prod.force, "wake", env)
                IN /\ r.status = "ECONNABORTED" /\ ~r.wait /\ ~r.w.fault
                   /\ r.red = prod.red
                   /\ r.w.beam.send_list = beam.send_list
                   /\ r.w.beam.sent_bytes = beam.sent_bytes
                   /\ r.w.hist.submitted = hist.submitted
    /\ ConsumerAborted =>
          /\ cons.woken
          /\ \A ok \in BOOLEAN :
                LET r == h2_beam_receive(World, TRUE, cons.readbytes, ok, "wake")
                IN /\ r.status = "ECONNABORTED" /\ ~r.wait /\ ~r.w.fault
                   /\ r.bb = <<>>
                   /\ r.w.beam.hold_list = beam.hold_list
                   /\ r.w.beam.received_bytes = beam.received_bytes

\* C18: on a beam with lock hook and condition variable and timeout 0, an
\* abort made while the producer sleeps in a blocking send or the consumer
\* sleeps in a blocking receive signals the sleeper; the sleeper runs again
\* and its call returns connection-aborted, and no chunk is admitted or
\* transferred after the abort.
C18_AbortWakesWaiters ==
    /\ []AbortedWaiterReturns
    /\ [][(beam'.aborted /\ ~beam.aborted) =>
             /\ prod.pc = "wait_space" => (prod'.pc = "wait_space" /\ prod'.woken)
             /\ cons.pc = "recv_wait" => (cons'.pc = "recv_wait" /\ cons'.woken)]_vars
    /\ [][beam.aborted =>
             /\ hist'.submitted = hist.submitted
             /\ hist'.delivered = hist.delivered]_vars
    /\ ProducerAborted ~> (prod.pc = "idle" /\ beam.aborted)
    /\ ConsumerAborted ~> (cons.pc = "idle" /\ beam.aborted)

\* the abort has come while the producer slept with a part of its brigade
\* admitted and the consumer slept as well
C18_Witness ==
    /\ ProducerAborted /\ ConsumerAborted
    /\ prod.woken /\ cons.woken
    /\ prod.red /= <<>> /\ beam.sent_bytes > 0

\* ----------------------------------------------------------------- C19
\* P holds of the world at the end of every send, receive, wait-empty,
\* abort and proxy destruction that a thread can make or go on with now
AfterCalls(P(_)) ==
    /\ CanSend =>
          \A c \in FreshSends : \A env \in SendEnvs(c.red) :
             P(h2_beam_send(World, c.red, c.block, c.red /= <<>>, "enter", env).w)
    /\ (sys = "running" /\ prod.pc = "wait_space") =>
          \A resume \in {"wake", "timeup"} : \A env \in SendEnvs(prod.red) :
             P(h2_beam_send(World, prod.red, TRUE, prod.force, resume, env).w)
    /\ CanReceive =>
          /\ \A block \in BOOLEAN, readbytes \in ReadBytes, ok \in BOOLEAN :
                P(h2_beam_receive(World, block, readbytes, ok, "enter").w)
          /\ \A block \in BOOLEAN : P(h2_beam_wait_empty(World, block, "enter").w)
    /\ (sys = "running" /\ cons.pc = "recv_wait") =>
          \A resume \in {"wake", "timeup"}, ok \in BOOLEAN :
             P(h2_beam_receive(World, TRUE, cons.readbytes, ok, resume).w)
    /\ (sys = "running" /\ cons.pc = "empty_wait") =>
          \A resume \in {"wake", "timeup"} :
             P(h2_beam_wait_empty(World, TRUE, resume).w)
    /\ sys = "running" =>
          /\ P(h2_beam_abort(World))
          /\ \A n \in DOMAIN green : P(beam_bucket_destroy(World, n))

Locked(w) == ~w.unlocked

\* send, receive, wait-empty, abort and the emitted notification touch
\* the beam with the lock held
LockedCalls == beam.m_enter => AfterCalls(Locked)

\* so does close, up to the value it returns
LockedClose ==
    (beam.m_enter /\ sys = "running" /\ prod.pc = "idle") =>
        Locked(h2_beam_close(World))

\* so do the cleanup of the producer's pool and destroy
LockedCleanup ==
    beam.m_enter =>
        /\ (sys = "running" /\ prod.pc = "idle" /\ beam.owner = "RECV"
            /\ beam.send_pool) => Locked(beam_send_cleanup(World))
        /\ DestroyAllowed => Locked(h2_beam_destroy(World))

\* C19: on a beam with a lock hook every operation, abort, close, the
\* emitted notification, the cleanup of the producer's pool and destroy
\* among them, reads and writes the queues, the proxy list, the flags and
\* the counters only while it holds the lock.
C19_LockDiscipline == LockedCalls /\ LockedClose /\ LockedCleanup

\* ----------------------------------------------------------------- C20
Released(w) == w.lock = 0

\* C20: on a beam with a lock hook every operation that took the lock has
\* given it back once when it returns, whatever it returns (success, again,
\* timed-out, connection-aborted, end-of-file, an error of a file setaside
\* or of a read), and a call that sleeps holds no lock: the lock is free
\* whenever no operation runs.
C20_LockReleased ==
    beam.m_enter =>
        /\ AfterCalls(Released)
        /\ (sys = "running" /\ prod.pc = "idle") => Released(h2_beam_close(World))
        /\ (sys = "running" /\ prod.pc = "idle" /\ cons.pc = "idle") =>
              \A m \in BOOLEAN : Released(h2_beam_mutex_set(World, m, m))

\* a receive on a beam with a lock hook fails on the setaside of a file
\* and returns the error with the lock given back, and a receive that
\* finds nothing returns again or goes to sleep
C20_Witness ==
    /\ beam.m_enter /\ CanReceive
    /\ \E readbytes \in ReadBytes :
          LET r == h2_beam_receive(World, FALSE, readbytes, FALSE, "enter")
          IN r.status = "EIO" /\ Released(r.w) /\ r.w.beam.m_enter

\* ----------------------------------------------------------------- C21
\* C21: when the consumer drops the last reference to a proxy while the
\* producer's pool is cleaned up or the beam is destroyed, the emitted
\* notification never runs for a proxy that the cleanup has unlinked
\* already, nor on a beam that is gone: a consumer that is about to call
\* h2_beam_emitted finds its proxy linked in the proxy list of a live beam.
C21_NoEmitAfterUnlink ==
    cons.pc = "emit" => (sys = "running" /\ Linked(beam, cons.n))

\* ----------------------------------------------------------------- C22
\* the producer sleeps in a blocking send, the consumer in a blocking
\* receive, and there is something to receive
BothAsleep ==
    /\ sys = "running" /\ beam.m_enter /\ beam.m_cond
    /\ beam.timeout = 0 /\ beam.max_buf_size > 0
    /\ prod.pc = "wait_space" /\ cons.pc = "recv_wait"
    /\ beam.send_list /= <<>>

\* neither sleeper has been signalled: only a third party can end this
NoDeadlock == ~(BothAsleep /\ ~prod.woken /\ ~cons.woken)

\* C22: with lock hook and condition variable, timeout 0 and a buffer
\* limit, no reachable state has the producer waiting for space inside a
\* blocking send and the consumer waiting for data inside a blocking
\* receive while the send list is not empty, whatever brigade was sent.
C22_NoDeadlock == ~BothAsleep

\* ----------------------------------------------------------------- C23
\* the proxies whose last reference the consumer holds, of a live beam and
\* with their source bucket in the hold list
LastReferences ==
    {n \in DOMAIN green :
        /\ green[n] = 1 /\ proxy[n].refcount = 1
        /\ proxy[n].beam /\ proxy[n].bred \in Ids(beam.hold_list)}

HoldIndex(n) == CHOOSE k \in 1..Len(beam.hold_list) : beam.hold_list[k].id = proxy[n].bred

\* the metadata in front of the bucket of proxy n, then the bucket
EmittedMoves(n) ==
    SelectSeq(SubSeq(beam.hold_list, 1, HoldIndex(n) - 1), APR_BUCKET_IS_METADATA)
       \o <<beam.hold_list[HoldIndex(n)]>>

\* the data in front of the bucket, and all that is behind it
EmittedStays(n) ==
    SelectSeq(SubSeq(beam.hold_list, 1, HoldIndex(n) - 1),
              LAMBDA b : ~APR_BUCKET_IS_METADATA(b))
       \o SubSeq(beam.hold_list, HoldIndex(n) + 1, Len(beam.hold_list))

\* C23: when the last reference to a live proxy whose source chunk c is in
\* the hold list is dropped, the proxy is unlinked from the proxy list,
\* its source pointer is nulled, and the metadata chunks in front of c and
\* then c, in hold order, are appended to the purge list (which a beam
\* without lock hook drains before the notification returns); the data
\* chunks in front of c and all chunks behind c stay in the hold list in
\* their order, and the send list is untouched.
C23_Emitted ==
    (sys = "running" /\ cons.pc = "idle") =>
        \A n \in LastReferences :
           /\ LET w == emitted_unlink(World, n)
              IN /\ ~Linked(w.beam, n)
                 /\ w.proxy[n].bred = NULL
                 /\ w.beam.purge_list = beam.purge_list \o EmittedMoves(n)
                 /\ w.beam.hold_list = EmittedStays(n)
                 /\ w.beam.send_list = beam.send_list
                 /\ ~w.fault
           /\ LET w == beam_bucket_destroy(World, n)
              IN /\ ~Linked(w.beam, n) /\ n \notin DOMAIN w.proxy
                 /\ w.beam.purge_list = IF beam.m_enter
                                        THEN beam.purge_list \o EmittedMoves(n)
                                        ELSE <<>>
                 /\ w.beam.hold_list = EmittedStays(n)
                 /\ w.beam.send_list = beam.send_list
                 /\ ~w.fault

\* the hold list is a data chunk, a flush and c, the last reference to
\* the proxy of c is the consumer's, and there is a chunk to receive
C23_Witness ==
    /\ sys = "running" /\ cons.pc = "idle" /\ beam.m_enter
    /\ Len(beam.hold_list) = 3
    /\ ~APR_BUCKET_IS_METADATA(beam.hold_list[1])
    /\ APR_BUCKET_IS_METADATA(beam.hold_list[2])
    /\ \E n \in LastReferences : HoldIndex(n) = 3

\* ----------------------------------------------------------------- C24
NoFault(w) == ~w.fault

\* C24: in every reachable state each proxy linked in the proxy list of
\* the beam is alive and has a source bucket, which is in the hold list;
\* so no drop of a proxy bucket, no receive and no other call runs into
\* the "emitted bucket not in hold" branch of h2_beam_emitted and its
\* assertion.
C24_LinkedProxiesHeld ==
    /\ \A i \in 1..Len(beam.proxies) :
          /\ beam.proxies[i] \in DOMAIN proxy
          /\ proxy[beam.proxies[i]].beam
          /\ proxy[beam.proxies[i]].bred /= NULL
          /\ proxy[beam.proxies[i]].bred \in Ids(beam.hold_list)
    /\ AfterCalls(NoFault)

\* two proxies are linked, one of them split in two, the beam is aborted
\* and the receive buffer holds the tail of the split
C24_Witness ==
    /\ sys = "running" /\ CanReceive
    /\ Len(beam.proxies) = 2
    /\ \E n \in DOMAIN proxy : proxy[n].refcount > 1
    /\ beam.aborted /\ beam.recv_buffer /= <<>>

\* ----------------------------------------------------------------- C25
\* the beamers that h2_beam_bucket has to call for src: all up to the
\* first one that gives a bucket, in the order of registration
BeamersDue(src) ==
    LET claim == {i \in 1..Len(beamers) : src.type \in beamers[i]}
        last == IF claim = {} THEN Len(beamers)
                ELSE CHOOSE i \in claim : \A j \in claim : i <= j
    IN [i \in 1..last |-> [beamer |-> i, id |-> src.id]]

Claimed(src) == \E i \in 1..Len(beamers) : src.type \in beamers[i]

\* this for the data bucket at the head of the send list
BeamersBeforeProxy ==
    (CanReceive /\ ~beam.aborted /\ beam.recv_buffer = <<>>
     /\ beam.send_list /= <<>> /\ beam.send_list[1].type = "heap") =>
        \A block \in BOOLEAN :
           LET src == beam.send_list[1]
               r == h2_beam_receive(World, block, src.length, TRUE, "enter")
           IN /\ SelectSeq(r.w.consulted, LAMBDA c : c.id = src.id) = BeamersDue(src)
              /\ IF Claimed(src)
                 THEN r.w.beam.proxies = beam.proxies /\ r.bb[1].type = "beamed"
                 ELSE Len(r.w.beam.proxies) = Len(beam.proxies) + 1
                      /\ r.bb[1].type = "beam"

\* the same order of calls for a metadata bucket that the beam has no
\* green bucket for
BeamersInOrder ==
    (CanReceive /\ ~beam.aborted /\ beam.recv_buffer = <<>>
     /\ beam.send_list /= <<>> /\ beam.send_list[1].type = "note") =>
        \A block \in BOOLEAN :
           LET src == beam.send_list[1]
               r == h2_beam_receive(World, block, MaxReadBytes, TRUE, "enter")
           IN /\ SelectSeq(r.w.consulted, LAMBDA c : c.id = src.id) = BeamersDue(src)
              /\ Claimed(src) <=> (r.bb /= <<>> /\ r.bb[1].type = "beamed")

\* C25: when receive takes a bytes chunk (neither metadata nor file) from
\* the send list, the registered beamers are called in the order of their
\* registration before a proxy is made, the first that gives a replacement
\* wins and the later ones are not called, and a proxy is made and linked
\* only if no beamer has claimed the chunk.
C25_BeamersFirst == BeamersBeforeProxy

\* ----------------------------------------------------------------- C26
\* a blocking send on a beam without mutex or without condition variable
\* does not wait, and returns again when it has buckets left that nothing
\* but the lack of space keeps out
BlockingSendReturns ==
    (CanSend /\ (~beam.m_enter \/ ~beam.m_cond)) =>
        \A c \in FreshSends : \A env \in SendEnvs(c.red) :
           LET r == h2_beam_send(World, c.red, TRUE, c.red /= <<>>, "enter", env)
           IN /\ ~r.wait
              /\ (r.red /= <<>> /\ r.status \notin {"ECONNABORTED", "EIO"})
                    => r.status = "EAGAIN"

\* the same for a blocking receive that has nothing to give and for a
\* blocking wait-empty on a beam that is not empty
BlockingReceiveReturns ==
    (CanReceive /\ (~beam.m_enter \/ ~beam.m_cond)) =>
        /\ \A readbytes \in ReadBytes, ok \in SetasideOks(beam) :
              LET r == h2_beam_receive(World, TRUE, readbytes, ok, "enter")
              IN /\ ~r.wait
                 /\ (r.bb = <<>> /\ r.status \notin {"ECONNABORTED", "EIO", "EOF"})
                       => r.status = "EAGAIN"
        /\ LET r == h2_beam_wait_empty(World, TRUE, "enter")
           IN /\ ~r.wait
              /\ (beam.send_list /= <<>> /\ beam.proxies /= <<>>)
                    => r.status = "EAGAIN"

\* C26: a send, receive or wait-empty call made in blocking mode on a beam
\* that lacks a mutex or lacks a condition variable never waits; when it
\* cannot make progress it returns again, be it that the beam has neither,
\* a mutex without condition variable, or a condition variable without
\* mutex.
C26_BlockingNeedsBoth == BlockingSendReturns /\ BlockingReceiveReturns

\* the part of it that is about receive alone
BlockingReceiveOnly ==
    (CanReceive /\ (~beam.m_enter \/ ~beam.m_cond)) =>
        \A readbytes \in ReadBytes, ok \in SetasideOks(beam) :
           LET r == h2_beam_receive(World, TRUE, readbytes, ok, "enter")
           IN /\ ~r.wait
              /\ (r.bb = <<>> /\ r.status \notin {"ECONNABORTED", "EIO", "EOF"})
                    => r.status = "EAGAIN"

\* the claim on the beams that have no mutex
BlockingWithoutMutex == ~beam.m_enter => C26_BlockingNeedsBoth

\* ----------------------------------------------------------------- C27
\* the producer's buckets that the beam has
RedIds(b) == Ids(b.send_list) \cup Ids(b.hold_list) \cup Ids(b.purge_list)

\* the call has freed no bucket of the producer, and what was in the
\* purge list is still there, in front
NoneFreed(w) ==
    /\ RedIds(beam) \subseteq RedIds(w.beam)
    /\ IsPrefix(beam.purge_list, w.beam.purge_list)

\* no receive, wait-empty or drop of a proxy bucket frees a red bucket
ConsumerFreesNothing ==
    /\ CanReceive =>
          /\ \A block \in BOOLEAN, readbytes \in ReadBytes, ok \in BOOLEAN :
                NoneFreed(h2_beam_receive(World, block, readbytes, ok, "enter").w)
          /\ \A block \in BOOLEAN : NoneFreed(h2_beam_wait_empty(World, block, "enter").w)
    /\ (sys = "running" /\ cons.pc = "recv_wait") =>
          \A resume \in {"wake", "timeup"}, ok \in BOOLEAN :
             NoneFreed(h2_beam_receive(World, TRUE, cons.readbytes, ok, resume).w)
    /\ (sys = "running" /\ cons.pc = "empty_wait") =>
          \A resume \in {"wake", "timeup"} :
             NoneFreed(h2_beam_wait_empty(World, TRUE, resume).w)
    /\ (sys = "running" /\ cons.pc = "idle") =>
          \A n \in DOMAIN green : NoneFreed(beam_bucket_destroy(World, n))

\* a send and a close free what they find in the purge list
ProducerDrainsPurge ==
    /\ CanSend =>
          \A c \in FreshSends : \A env \in SendEnvs(c.red) :
             LET r == h2_beam_send(World, c.red, c.block, c.red /= <<>>, "enter", env)
             IN /\ r.w.beam.purge_list = <<>>
                /\ Ids(beam.purge_list) \cap RedIds(r.w.beam) = {}
    /\ (sys = "running" /\ prod.pc = "idle") =>
          /\ h2_beam_close(World).beam.purge_list = <<>>
          /\ Ids(beam.purge_list) \cap RedIds(h2_beam_close(World).beam) = {}

\* C27: while a lock hook is set, the buckets of the purge list and all
\* other buckets of the producer are freed inside send, close, abort and
\* the cleanup of the producer's pool only: no receive, no wait-empty and
\* no drop of a proxy bucket frees one, they only add to the purge list;
\* every send and every close starts by emptying the purge list.
C27_ProducerPurges == beam.m_enter => (ConsumerFreesNothing /\ ProducerDrainsPurge)

\* a bucket waits in the purge list, the consumer holds the last
\* reference to another proxy, and both threads are free to call
C27_Witness ==
    /\ beam.m_enter /\ CanSend /\ CanReceive
    /\ beam.purge_list /= <<>>
    /\ LastReferences /= {}
    /\ hist.nextId < MaxBuckets

\* ----------------------------------------------------------------- C28
\* nothing is left in the beam and no assertion has failed
NothingLeft(w) ==
    /\ ~w.fault
    /\ w.beam.proxies = <<>>
    /\ w.beam.send_list = <<>>
    /\ w.beam.hold_list = <<>>
    /\ w.beam.purge_list = <<>>
    /\ w.beam.recv_buffer = <<>>

\* C28: h2_beam_destroy called on a beam without lock hook, whoever owns
\* it, returns with the proxy list, the send, hold and purge lists and
\* recv_buffer empty; none of the assertions of the path of a beam owned
\* by the receiver fails.
C28_TeardownClean ==
    (sys = "running" /\ ~beam.m_enter) => NothingLeft(h2_beam_destroy(World))

\* the same for every destroy the owner may call while the hook is set
TeardownCleanHooked == DestroyAllowed => NothingLeft(h2_beam_destroy(World))

\* the receiver owns the beam and has taken the lock hook away; buckets
\* are held for proxies that are alive, one of them in recv_buffer
C28_Witness ==
    /\ sys = "running" /\ ~beam.m_enter
    /\ beam.owner = "RECV" /\ beam.max_buf_size = MaxBufSize /\ beam.send_pool
    /\ beam.hold_list /= <<>> /\ beam.proxies /= <<>>
    /\ beam.recv_buffer /= <<>>

\* the same with a beam the sender owns
TeardownSenderOwned ==
    /\ sys = "running" /\ ~beam.m_enter /\ beam.owner = "SEND"
    /\ beam.hold_list /= <<>> /\ beam.proxies /= <<>>
    /\ beam.send_list /= <<>>

\* ----------------------------------------------------------------- C29
\* the lock hook was never called by a thread that held the lock
NoNesting(w) == ~w.nested

\* C29: no call into the beam invokes the lock hook while it holds the
\* lock of the beam: a receive on an aborted beam, which cleans
\* recv_buffer with the lock held, runs h2_beam_emitted for no proxy
\* bucket left there, and no other call does either.
C29_NoNestedLock ==
    /\ AfterCalls(NoNesting)
    /\ (sys = "running" /\ prod.pc = "idle") => NoNesting(h2_beam_close(World))

\* the nesting is that of the receive on an aborted beam only
NestedInAbortedReceive ==
    /\ (sys = "running" /\ prod.pc = "idle") => NoNesting(h2_beam_close(World))
    /\ CanSend =>
          \A c \in FreshSends : \A env \in SendEnvs(c.red) :
             NoNesting(h2_beam_send(World, c.red, c.block, c.red /= <<>>, "enter", env).w)
    /\ (sys = "running" /\ prod.pc = "wait_space") =>
          \A resume \in {"wake", "timeup"} : \A env \in SendEnvs(prod.red) :
             NoNesting(h2_beam_send(World, prod.red, TRUE, prod.force, resume, env).w)
    /\ sys = "running" =>
          /\ NoNesting(h2_beam_abort(World))
          /\ \A n \in DOMAIN green : NoNesting(beam_bucket_destroy(World, n))
    /\ (CanReceive /\ ~beam.aborted) =>
          /\ \A block \in BOOLEAN, readbytes \in ReadBytes, ok \in BOOLEAN :
                NoNesting(h2_beam_receive(World, block, readbytes, ok, "enter").w)
          /\ \A block \in BOOLEAN : NoNesting(h2_beam_wait_empty(World, block, "enter").w)
    /\ (sys = "running" /\ cons.pc = "empty_wait") =>
          \A resume \in {"wake", "timeup"} :
             NoNesting(h2_beam_wait_empty(World, TRUE, resume).w)

\* ----------------------------------------------------------------- C30
\* the producer sleeps in r_wait_space on a beam with mutex and condition
\* variable and no timeout that would end the wait, and the consumer is
\* free to call
SendBlocked ==
    /\ sys = "running" /\ beam.m_enter /\ beam.m_cond /\ beam.timeout = 0
    /\ prod.pc = "wait_space" /\ cons.pc = "idle"

\* the receive that ended in r has taken a data bucket off the send list
RemovesData(r) ==
    \E i \in 1..Len(beam.send_list) :
       /\ beam.send_list[i].type \notin MetaTypes \cup {"file"}
       /\ beam.send_list[i].id \notin Ids(r.w.beam.send_list)

\* the producer, run again in the world w, admits something of its
\* brigade or returns
SendGoesOn(w) ==
    \A env \in SendEnvs(prod.red) :
       LET t == h2_beam_send(w, prod.red, TRUE, prod.force, "wake", env)
       IN ~t.wait \/ t.red /= prod.red

\* every receive that takes a data bucket off the send list signals the
\* condition
ReceiveWakesSender ==
    SendBlocked =>
       \A block \in BOOLEAN, readbytes \in ReadBytes, ok \in SetasideOks(beam) :
          LET r == h2_beam_receive(World, block, readbytes, ok, "enter")
          IN RemovesData(r) => r.w.bcast

\* the producer woken by such a receive admits or returns
WokenSenderGoesOn ==
    SendBlocked =>
       \A block \in BOOLEAN, readbytes \in ReadBytes, ok \in SetasideOks(beam) :
          LET r == h2_beam_receive(World, block, readbytes, ok, "enter")
          IN (RemovesData(r) /\ r.w.bcast) => SendGoesOn(r.w)

\* an abort signals the condition and the producer returns
AbortWakesSender ==
    SendBlocked =>
       /\ h2_beam_abort(World).bcast
       /\ \A env \in SendEnvs(prod.red) :
             LET t == h2_beam_send(h2_beam_abort(World), prod.red, TRUE, prod.force,
                                   "wake", env)
             IN ~t.wait /\ t.status = "ECONNABORTED"

\* C30: on a beam with mutex and condition variable, a producer that
\* sleeps for space in a blocking send is signalled by every receive that
\* takes a data bucket off the send list and by every abort; run again, it
\* admits the bucket it waited with or returns (connection-aborted after
\* an abort).
C30_BlockedSendProgress ==
    ReceiveWakesSender /\ WokenSenderGoesOn /\ AbortWakesSender

====
